---- MODULE Spec2Model ----
(***************************************************************************)
(* NutriFlow backend (linsalefe/ia-nutricionista-backend): the profile     *)
(* store, the two nutrition target calculators, the daily intake ledger    *)
(* and the chat directives of POST /chat/send.                             *)
(*                                                                         *)
(* Numbers.  Python floats are modelled by exact rationals over fixed      *)
(* denominators:                                                           *)
(*   - weights are whole kilograms, heights whole centimetres, ages years; *)
(*   - activity_level is kept in fortieths (1.2 = 48/40, 1.375 = 55/40,    *)
(*     1.55 = 62/40, 1.725 = 69/40, 1.9 = 76/40);                          *)
(*   - kcal quantities inside the calculators are numerators over 16000;   *)
(*   - ledger amounts (kcal and grams) are kept in halves, so that         *)
(*     Python's round() (half to even) is not the identity on them.        *)
(* An optional value (a nullable column, a missing dict key) is the empty  *)
(* tuple when absent and a one-element tuple when present.                 *)
(***************************************************************************)
EXTENDS Integers, Sequences, FiniteSets, Bags, TLC

VARIABLES
    users,          \* public.users: username -> profile columns
    daily_intake,   \* public.daily_intake: a set of rows
    chat_messages,  \* public.chat_messages: username -> number of rows
    today,          \* the UTC calendar date (a day number)
    req,            \* POST /chat/send requests in flight: a bag of records
    started,        \* how many chat requests have been started
    ledger_hist,    \* history: per (username, day), what the committed statements add up to
    last,           \* the last request served and its response
    prior,          \* SpecProfile: what the last request met and carried
    order_args,     \* SpecOrder: the two /consumo directives compared
    order_runs,     \* SpecOrder: run name -> its own daily_intake table
    order_phase,    \* SpecOrder: how many adds each run has applied
    accounts,       \* public.users: e-mail username -> has_access, password_hash
    hooks,          \* payment webhook requests, in order of arrival
    outbox,         \* the welcome e-mails that were delivered
    sent,           \* SpecFrame history: the profile requests served, in order
    weight_logs,    \* public.weight_logs: a set of rows
    meals,          \* public.meal_analyses: a set of rows
    initial_weight  \* public.users.initial_weight: username -> optional weight

vars == <<users, daily_intake, chat_messages, today, req, started, ledger_hist,
          last, prior, order_args, order_runs, order_phase, accounts, hooks, outbox,
          sent, weight_logs, meals, initial_weight>>

-----------------------------------------------------------------------------
(* Optional values *)

None == <<>>

Some(v) == <<v>>

OrElse(o, d) == IF o = None THEN d ELSE o[1]

Max(a, b) == IF a >= b THEN a ELSE b

\* Python's round(): the integer nearest to n/d (d > 0), ties to the even one.
RoundHalfEven(n, d) ==
    LET q == n \div d
        r == n % d
    IN  IF 2 * r < d THEN q
        ELSE IF 2 * r > d THEN q + 1
        ELSE IF q % 2 = 0 THEN q ELSE q + 1

-----------------------------------------------------------------------------
(* Nutrition rules shared by app/endpoints/nutrition.py and                *)
(* app/services/lina_context.py (the two files define them identically).   *)

ALLOWED_ACTIVITY == {48, 55, 62, 69, 76}

\* a multiple of 5 obtained by cutting instead of rounding
Round5Truncating(n, d) == (n \div (5 * d)) * 5

\* _round5(x) for x = n/d: int(round(x / 5.0)) * 5
Round5(n, d) == RoundHalfEven(n, 5 * d) * 5

\* _bmr_mifflin, times 4: 10 W + 6.25 H - 5 A + 5 (M) or - 161 (F)
BmrMifflin4(sex, age, height_cm, weight_kg) ==
    IF sex = "M"
    THEN 40 * weight_kg + 25 * height_cm - 20 * age + 20
    ELSE 40 * weight_kg + 25 * height_cm - 20 * age - 644

\* the adjustment with bmi > 30.0 in place of bmi >= 30.0
AdjustedWeightAbove30(current_weight, height_cm) ==
    LET H == Max(height_cm, 1)
    IN  IF 1000 * current_weight > 3 * H * H
        THEN 3 * H * H + 400 * current_weight
        ELSE 1600 * current_weight

\* _adjusted_weight_if_obese, times 1600.  h = max(height_cm, 1) / 100,
\* ibw = 25 h^2, bmi = W / h^2; bmi >= 30 iff 1000 W >= 3 H^2, and then the
\* result is ibw + 0.25 (W - ibw) = (3 H^2 + 400 W) / 1600.
AdjustedWeightIfObese1600(current_weight, height_cm) ==
    LET H == Max(height_cm, 1)
    IN  IF 1000 * current_weight >= 3 * H * H
        THEN 3 * H * H + 400 * current_weight
        ELSE 1600 * current_weight

\* a goal factor that leaves out the surplus of "gain"
GoalFactor20NoGain(goal_type) ==
    IF goal_type = "lose" THEN 17 ELSE 20

\* goal factor in twentieths: lose 0.85, gain 1.10, otherwise 1
GoalFactor20(goal_type) ==
    IF goal_type = "lose" THEN 17
    ELSE IF goal_type = "gain" THEN 22
    ELSE 20

\* tdee = bmr * activity, as a numerator over 16000
Tdee16000(sex, age, height_cm, weight, activity40) ==
    BmrMifflin4(sex, age, height_cm, weight) * activity40 * 100

\* the goal-adjusted kcal before the safety floor, as a numerator over 16000
GoalKcal16000(sex, age, height_cm, weight, activity40, goal_type) ==
    BmrMifflin4(sex, age, height_cm, weight) * activity40 * GoalFactor20(goal_type) * 5

\* min_kcal = 1200.0 if sex == "F" else 1400.0
MinKcal(sex) == IF sex = "F" THEN 1200 ELSE 1400

\* the macro split without the max(0.0, ...) around the carbohydrates
MacroTargetsSignedCarbs(kcal16000, weight, height_cm) ==
    LET pw1600    == AdjustedWeightIfObese1600(weight, height_cm)
        p_cal     == 72 * pw1600
        f_cal     == 115200 * weight
        remaining == kcal16000 - (p_cal + f_cal)
    IN  [ kcal      |-> Round5(kcal16000, 16000),
          protein_g |-> RoundHalfEven(9 * pw1600, 8000),
          fat_g     |-> RoundHalfEven(4 * weight, 5),
          carbs_g   |-> RoundHalfEven(remaining, 64000) ]

\* The macro split both calculators end with, from the (possibly clamped)
\* kcal numerator over 16000.
MacroTargets(kcal16000, weight, height_cm) ==
    LET pw1600    == AdjustedWeightIfObese1600(weight, height_cm)
        p_cal     == 72 * pw1600          \* 1.8 * pw * 4, over 16000
        f_cal     == 115200 * weight      \* 0.8 * W * 9, over 16000
        remaining == kcal16000 - (p_cal + f_cal)
    IN  [ kcal      |-> Round5(kcal16000, 16000),
          protein_g |-> RoundHalfEven(9 * pw1600, 8000),
          fat_g     |-> RoundHalfEven(4 * weight, 5),
          carbs_g   |-> RoundHalfEven(Max(0, remaining), 64000) ]


-----------------------------------------------------------------------------
(* app/endpoints/nutrition.py: GET /nutrition/targets *)

\* _map_objetivo_to_goal_type; the substring tests are taken over the
\* legacy 'objetivo' texts the model uses.  nutrition.py looks for
\* "bulking" where lina_context.py looks for "bulk".
NutritionMapObjetivo(obj) ==
    IF obj \in {Some("perder peso")} THEN "lose"
    ELSE IF obj \in {Some("ganhar massa")} THEN "gain"
    ELSE "maintain"

\* _fetch_profile: the row with its defaults applied
FetchProfile(row) ==
    [ sex                 |-> row.sex,
      age                 |-> OrElse(row.age, 0),
      height_cm           |-> OrElse(row.height_cm, 0),
      current_weight      |-> OrElse(row.current_weight, 0),
      activity_level      |-> OrElse(row.activity_level, 48),
      goal_type           |-> OrElse(row.goal_type, NutritionMapObjetivo(row.objetivo)),
      confirm_low_calorie |-> row.confirm_low_calorie ]

\* _compute_targets of nutrition.py with the confirmation test inverted
NutritionComputeTargetsInverted(profile) ==
    LET sex      == OrElse(profile.sex, "M")
        tdee     == Tdee16000(sex, profile.age, profile.height_cm,
                              profile.current_weight, profile.activity_level)
        kcal     == GoalKcal16000(sex, profile.age, profile.height_cm,
                                  profile.current_weight, profile.activity_level,
                                  profile.goal_type)
        min_kcal == IF profile.sex = Some("F") THEN 1200 ELSE 1400
        below    == kcal < min_kcal * 16000
        clamp    == below /\ profile.confirm_low_calorie
    IN  [ bmr      |-> RoundHalfEven(BmrMifflin4(sex, profile.age, profile.height_cm,
                                                 profile.current_weight), 4),
          tdee     |-> Round5(tdee, 16000),
          targets  |-> MacroTargets(IF clamp THEN min_kcal * 16000 ELSE kcal,
                                    profile.current_weight, profile.height_cm),
          warnings |-> IF clamp THEN <<"abaixo do minimo seguro: necessaria confirmacao">>
                       ELSE IF below THEN <<"abaixo do minimo: liberada por confirmacao">>
                       ELSE << >>,
          blocked  |-> clamp ]

\* _compute_targets of nutrition.py (the TargetsOut it returns)
NutritionComputeTargets(profile) ==
    LET sex      == OrElse(profile.sex, "M")
        tdee     == Tdee16000(sex, profile.age, profile.height_cm,
                              profile.current_weight, profile.activity_level)
        kcal     == GoalKcal16000(sex, profile.age, profile.height_cm,
                                  profile.current_weight, profile.activity_level,
                                  profile.goal_type)
        min_kcal == IF profile.sex = Some("F") THEN 1200 ELSE 1400
        below    == kcal < min_kcal * 16000
        clamp    == below /\ ~profile.confirm_low_calorie
    IN  [ bmr      |-> RoundHalfEven(BmrMifflin4(sex, profile.age, profile.height_cm,
                                                 profile.current_weight), 4),
          tdee     |-> Round5(tdee, 16000),
          targets  |-> MacroTargets(IF clamp THEN min_kcal * 16000 ELSE kcal,
                                    profile.current_weight, profile.height_cm),
          warnings |-> IF clamp THEN <<"abaixo do minimo seguro: necessaria confirmacao">>
                       ELSE IF below THEN <<"abaixo do minimo: liberada por confirmacao">>
                       ELSE << >>,
          blocked  |-> clamp ]

\* get_targets: the response of GET /nutrition/targets for a stored row
GetTargets(row) ==
    LET profile == FetchProfile(row)
    IN  IF profile.sex = None
        THEN [status |-> 400, detail |-> "sex", body |-> None]
        ELSE IF profile.age <= 0 \/ profile.height_cm <= 0 \/ profile.current_weight <= 0
        THEN [status |-> 400, detail |-> "perfil incompleto", body |-> None]
        ELSE IF profile.activity_level \notin ALLOWED_ACTIVITY
        THEN [status |-> 400, detail |-> "activity_level", body |-> None]
        ELSE IF profile.goal_type \notin {"lose", "maintain", "gain"}
        THEN [status |-> 400, detail |-> "goal_type", body |-> None]
        ELSE [status |-> 200, detail |-> "", body |-> Some(NutritionComputeTargets(profile))]

-----------------------------------------------------------------------------
(* app/services/lina_context.py: the chat context *)

LinaMapObjetivo(obj) ==
    IF obj \in {Some("perder peso")} THEN "lose"
    ELSE IF obj \in {Some("ganhar massa"), Some("bulk")} THEN "gain"
    ELSE "maintain"

\* _load_profile
LoadProfile(row) ==
    [ sex                 |-> row.sex,
      age                 |-> OrElse(row.age, 0),
      height_cm           |-> OrElse(row.height_cm, 0),
      current_weight      |-> OrElse(row.current_weight, 0),
      activity_level      |-> OrElse(row.activity_level, 48),
      goal_type           |-> OrElse(row.goal_type, LinaMapObjetivo(row.objetivo)),
      confirm_low_calorie |-> row.confirm_low_calorie ]

\* _compute_targets of lina_context.py that clamps without setting blocked
LinaComputeTargetsNoBlock(profile) ==
    LET sex      == profile.sex[1]
        tdee     == Tdee16000(sex, profile.age, profile.height_cm,
                              profile.current_weight, profile.activity_level)
        kcal     == GoalKcal16000(sex, profile.age, profile.height_cm,
                                  profile.current_weight, profile.activity_level,
                                  profile.goal_type)
        min_kcal == MinKcal(sex)
        clamp    == kcal < min_kcal * 16000 /\ ~profile.confirm_low_calorie
    IN  [ bmr      |-> RoundHalfEven(BmrMifflin4(sex, profile.age, profile.height_cm,
                                                 profile.current_weight), 4),
          tdee     |-> Round5(tdee, 16000),
          targets  |-> MacroTargets(IF clamp THEN min_kcal * 16000 ELSE kcal,
                                    profile.current_weight, profile.height_cm),
          warnings |-> IF clamp THEN <<"abaixo do minimo seguro">> ELSE << >>,
          blocked  |-> FALSE ]

\* _compute_targets of lina_context.py; called on complete profiles only
LinaComputeTargets(profile) ==
    LET sex      == profile.sex[1]
        tdee     == Tdee16000(sex, profile.age, profile.height_cm,
                              profile.current_weight, profile.activity_level)
        kcal     == GoalKcal16000(sex, profile.age, profile.height_cm,
                                  profile.current_weight, profile.activity_level,
                                  profile.goal_type)
        min_kcal == MinKcal(sex)
        clamp    == kcal < min_kcal * 16000 /\ ~profile.confirm_low_calorie
    IN  [ bmr      |-> RoundHalfEven(BmrMifflin4(sex, profile.age, profile.height_cm,
                                                 profile.current_weight), 4),
          tdee     |-> Round5(tdee, 16000),
          targets  |-> MacroTargets(IF clamp THEN min_kcal * 16000 ELSE kcal,
                                    profile.current_weight, profile.height_cm),
          warnings |-> IF clamp THEN <<"abaixo do minimo seguro">> ELSE << >>,
          blocked  |-> clamp ]

\* the "validacao minima para metas" of build_lina_system_prompt
ProfileIncomplete(profile) ==
    \/ profile.sex = None
    \/ profile.age <= 0
    \/ profile.height_cm <= 0
    \/ profile.current_weight <= 0

\* build_lina_system_prompt: the context dict it returns beside the prompt
BuildLinaSystemPrompt(row) ==
    LET profile == LoadProfile(row)
    IN  IF ProfileIncomplete(profile)
        THEN [profile |-> profile, targets |-> None]
        ELSE [profile |-> profile, targets |-> Some(LinaComputeTargets(profile))]

-----------------------------------------------------------------------------
(* app/endpoints/chat.py: the daily intake ledger *)

ZeroIntake == [kcal |-> 0, protein_g |-> 0, carbs_g |-> 0, fat_g |-> 0]

IntakeRow(username, d, kcal, p, c, f) ==
    [username |-> username, day |-> d,
     kcal |-> kcal, protein_g |-> p, carbs_g |-> c, fat_g |-> f]

\* the rows a statement's (username, day) key matches
RowsOf(table, username, d) == {row \in table : row.username = username /\ row.day = d}

\* _upsert_intake: INSERT ... ON CONFLICT (username, day) DO UPDATE SET
\* kcal = daily_intake.kcal + EXCLUDED.kcal, ... as the one statement it is
UpsertIntakeOverwrite(table, username, d, kcal, p, c, f) ==
    (table \ RowsOf(table, username, d)) \cup {IntakeRow(username, d, kcal, p, c, f)}

UpsertIntakeAlwaysInsert(table, username, d, kcal, p, c, f) ==
    table \cup {IntakeRow(username, d, kcal, p, c, f)}

UpsertIntake(table, username, d, kcal, p, c, f) ==
    LET conflict == RowsOf(table, username, d)
    IN  IF conflict = {}
        THEN table \cup {IntakeRow(username, d, kcal, p, c, f)}
        ELSE (table \ conflict) \cup
             { IntakeRow(username, d, row.kcal + kcal, row.protein_g + p,
                         row.carbs_g + c, row.fat_g + f) : row \in conflict }

\* _reset_intake: INSERT ... VALUES (.., 0, 0, 0, 0) ON CONFLICT DO UPDATE SET
\* kcal = 0, protein_g = 0, carbs_g = 0, fat_g = 0
ResetIntakeKcalOnly(table, username, d) ==
    LET conflict == RowsOf(table, username, d)
    IN  IF conflict = {}
        THEN table \cup {IntakeRow(username, d, 0, 0, 0, 0)}
        ELSE (table \ conflict) \cup
             { IntakeRow(username, d, 0, row.protein_g, row.carbs_g, row.fat_g)
               : row \in conflict }

ResetIntake(table, username, d) ==
    LET conflict == RowsOf(table, username, d)
    IN  IF conflict = {}
        THEN table \cup {IntakeRow(username, d, 0, 0, 0, 0)}
        ELSE (table \ conflict) \cup {IntakeRow(username, d, 0, 0, 0, 0)}

\* _get_intake: SELECT ... WHERE username = %s AND day = %s; fetchone()
GetIntake(table, username, d) ==
    LET found == RowsOf(table, username, d)
    IN  IF found = {}
        THEN ZeroIntake
        ELSE LET row == CHOOSE x \in found : TRUE
             IN  [kcal |-> row.kcal, protein_g |-> row.protein_g,
                  carbs_g |-> row.carbs_g, fat_g |-> row.fat_g]

-----------------------------------------------------------------------------
(* app/endpoints/chat.py: /consumo, /refeicao and the status report *)

KcalKeys == {"kcal", "cal", "calorias"}
ProteinKeys == {"p", "prot", "proteina", "protein", "protein_g"}
CarbKeys == {"c", "carb", "carbo", "carboidrato", "carboidratos", "carbs_g"}
FatKeys == {"f", "fat", "gordura", "gorduras", "fat_g"}

\* the key=value loop of _parse_consumo: every value clamped at 0, a later
\* pair for the same nutrient replacing an earlier one
RECURSIVE ParseConsumoPairs(_, _)
ParseConsumoPairs(pairs, acc) ==
    IF pairs = << >> THEN acc
    ELSE LET k   == Head(pairs)[1]
             val == Max(0, Head(pairs)[2])
             nxt == IF k \in KcalKeys THEN [acc EXCEPT !.kcal = val]
                    ELSE IF k \in ProteinKeys THEN [acc EXCEPT !.protein_g = val]
                    ELSE IF k \in CarbKeys THEN [acc EXCEPT !.carbs_g = val]
                    ELSE IF k \in FatKeys THEN [acc EXCEPT !.fat_g = val]
                    ELSE acc
         IN  ParseConsumoPairs(Tail(pairs), nxt)

\* _parse_consumo.  The argument text is one of: nothing ("/consumo"), a bare
\* unsigned number, or a list of key=value pairs with signed values.
ParseConsumo(arg) ==
    IF arg.kind = "empty" THEN ZeroIntake
    ELSE IF arg.kind = "number" THEN [ZeroIntake EXCEPT !.kcal = Max(0, arg.value)]
    ELSE ParseConsumoPairs(arg.pairs, ZeroIntake)

\* _analyze_meal_text that keeps whatever figures the answer holds
AnalyzeMealTextNoFallback(raw) ==
    [items |-> raw.items, totais |-> OrElse(raw.totais, ZeroIntake), raw |-> raw]

\* _analyze_meal_text after the model's answer `raw` came back: json.loads and
\* the float() conversions, or the all-zero fallback of the except branch
AnalyzeMealText(raw) ==
    IF ~raw.parses
    THEN [items |-> 0, totais |-> ZeroIntake, raw |-> raw]
    ELSE [items |-> raw.items, totais |-> OrElse(raw.totais, ZeroIntake), raw |-> raw]

\* _format_meal_reply: the item list, the rounded macros, the status block.
\* warnings: the nutrients the reply warns about; the function reads its
\* `targets` argument nowhere and writes no warning line.
FormatMealReply(meal, targets, status) ==
    [ consumed  |-> status.consumed,
      remaining |-> status.remaining,
      items     |-> meal.items,
      macros    |-> [ kcal      |-> RoundHalfEven(meal.totais.kcal, 2),
                      protein_g |-> RoundHalfEven(meal.totais.protein_g, 2),
                      carbs_g   |-> RoundHalfEven(meal.totais.carbs_g, 2),
                      fat_g     |-> RoundHalfEven(meal.totais.fat_g, 2) ],
      warnings  |-> {} ]

\* _format_status with no remaining amount on any line
FormatStatusRemainingZero(cons, targets_ctx) ==
    [ consumed  |-> [ kcal      |-> RoundHalfEven(cons.kcal, 2),
                      protein_g |-> RoundHalfEven(cons.protein_g, 2),
                      carbs_g   |-> RoundHalfEven(cons.carbs_g, 2),
                      fat_g     |-> RoundHalfEven(cons.fat_g, 2) ],
      remaining |-> [n \in {"kcal", "protein_g", "carbs_g", "fat_g"} |-> Some(0)] ]

\* _format_status.  remaining: None stands for "(meta nao definida)".
FormatStatus(cons, targets_ctx) ==
    LET trg == IF targets_ctx.targets = None THEN ZeroIntake
               ELSE targets_ctx.targets[1].targets
        ck  == RoundHalfEven(cons.kcal, 2)
        cp  == RoundHalfEven(cons.protein_g, 2)
        cc  == RoundHalfEven(cons.carbs_g, 2)
        cf  == RoundHalfEven(cons.fat_g, 2)
    IN  [ consumed  |-> [kcal |-> ck, protein_g |-> cp, carbs_g |-> cc, fat_g |-> cf],
          remaining |->
            [ kcal      |-> IF trg.kcal # 0 THEN Some(Max(0, trg.kcal - ck)) ELSE None,
              protein_g |-> IF trg.protein_g # 0 THEN Some(Max(0, trg.protein_g - cp)) ELSE None,
              carbs_g   |-> IF trg.carbs_g # 0 THEN Some(Max(0, trg.carbs_g - cc)) ELSE None,
              fat_g     |-> IF trg.fat_g # 0 THEN Some(Max(0, trg.fat_g - cf)) ELSE None ] ]

-----------------------------------------------------------------------------
(* Bounds and inputs *)

MaxInFlight == 2    \* chat requests served at the same time
MaxStarted == 2     \* chat requests started in one behaviour
MaxDay == 1         \* the UTC date runs over 0 .. MaxDay

Usernames == {"ana", "bia"}

\* the e-mail addresses payment webhooks carry
Emails == {"eva@mail.com", "leo@mail.com"}

NoAccounts == [e \in Emails |-> None]

\* a row of public.users right after POST /user/signup without height_cm
SignupRow ==
    [ sex |-> None, age |-> None, height_cm |-> None, current_weight |-> None,
      activity_level |-> None, goal_type |-> None, objetivo |-> None,
      confirm_low_calorie |-> FALSE ]

\* F, 100 years, 120 cm, 40 kg, activity 1.2, lose, low calories confirmed
LowCalorieRow ==
    [ sex |-> Some("F"), age |-> Some(100), height_cm |-> Some(120),
      current_weight |-> Some(40), activity_level |-> Some(48),
      goal_type |-> Some("lose"), objetivo |-> None,
      confirm_low_calorie |-> TRUE ]

\* F, 25 years, 165 cm, 60 kg, activity 1.2, lose
ExampleRow ==
    [ sex |-> Some("F"), age |-> Some(25), height_cm |-> Some(165),
      current_weight |-> Some(60), activity_level |-> Some(48),
      goal_type |-> Some("lose"), objetivo |-> None,
      confirm_low_calorie |-> FALSE ]

\* a profile the chat has only begun to fill: sex and height, no age or weight
PartialRow ==
    [ sex |-> Some("F"), age |-> None, height_cm |-> Some(165), current_weight |-> None,
      activity_level |-> None, goal_type |-> Some("lose"), objetivo |-> None,
      confirm_low_calorie |-> FALSE ]

ConsumoArg(kind, value, pairs) == [kind |-> kind, value |-> value, pairs |-> pairs]

\* "/consumo", "/consumo 1300", "/consumo kcal=700 p=50 c=80 f=20",
\* "/consumo kcal=-100 p=0.5" (amounts in halves)
ConsumoArgs ==
    { ConsumoArg("empty", 0, << >>),
      ConsumoArg("number", 2600, << >>),
      ConsumoArg("pairs", 0, << <<"kcal", 1400>>, <<"p", 100>>, <<"c", 160>>, <<"f", 40>> >>),
      ConsumoArg("pairs", 0, << <<"kcal", -200>>, <<"p", 1>> >>) }

\* what the meal model may answer: text that is no JSON (though it speaks of
\* two foods and 200 kcal), a JSON estimate, a JSON estimate with a negative
\* total, a JSON estimate of a very large meal (3000.5 kcal, 250 g protein,
\* 400 g carbohydrate, 100 g fat)
MealRaws ==
    { [parses |-> FALSE, items |-> 2,
       totais |-> Some([kcal |-> 400, protein_g |-> 20, carbs_g |-> 60, fat_g |-> 10])],
      [parses |-> TRUE, items |-> 2,
       totais |-> Some([kcal |-> 901, protein_g |-> 60, carbs_g |-> 100, fat_g |-> 30])],
      [parses |-> TRUE, items |-> 1,
       totais |-> Some([kcal |-> -200, protein_g |-> 0, carbs_g |-> 0, fat_g |-> 0])],
      [parses |-> TRUE, items |-> 3,
       totais |-> Some([kcal |-> 6001, protein_g |-> 500, carbs_g |-> 800, fat_g |-> 200])] }

-----------------------------------------------------------------------------
(* POST /chat/send, one action per database statement of a directive *)

\* History of the ledger statements committed on one (username, day) key:
\* whether any was, the amounts added since the last reset, and whether a
\* reset ever found sums other than zero.
NoHistory == [touched |-> FALSE, contributed |-> ZeroIntake, cleared |-> FALSE]

Plus(a, b) ==
    [ kcal |-> a.kcal + b.kcal, protein_g |-> a.protein_g + b.protein_g,
      carbs_g |-> a.carbs_g + b.carbs_g, fat_g |-> a.fat_g + b.fat_g ]

LogAdd(username, d, amount) ==
    ledger_hist' = [ledger_hist EXCEPT ![<<username, d>>] =
        [@ EXCEPT !.touched = TRUE, !.contributed = Plus(@, amount)]]

LogReset(username, d) ==
    ledger_hist' = [ledger_hist EXCEPT ![<<username, d>>] =
        [ touched |-> TRUE, contributed |-> ZeroIntake,
          cleared |-> @.cleared \/ GetIntake(daily_intake, username, d) # ZeroIntake ]]

\* a request in flight: where it stands in send_to_ai and its local variables
Request(pc, cmd, username, add, ctx) ==
    [pc |-> pc, cmd |-> cmd, username |-> username, add |-> add, ctx |-> ctx,
     meal |-> None]

\* a request served: what was asked, and the response with what it was built from
Served(op, username, status, detail, ctx, targets, report) ==
    [ op |-> op, username |-> username, status |-> status, detail |-> detail,
      ctx |-> ctx, targets |-> targets, report |-> report ]

\* salvar_chat_message(username, "user", ...); salvar_chat_message(username, "bot", ...)
SaveExchange(username) ==
    chat_messages' = [chat_messages EXCEPT ![username] = @ + 2]

\* a worker is free to take one more request
CanStart == BagCardinality(req) < MaxInFlight /\ started < MaxStarted

Enter(q) == req (+) SetToBag({q})

Leave(q) == req (-) SetToBag({q})

Move(q, pc) == Leave(q) (+) SetToBag({[q EXCEPT !.pc = pc]})

LedgerFrame ==
    UNCHANGED <<users, prior, order_args, order_runs, order_phase,
                accounts, hooks, outbox, sent, weight_logs, meals, initial_weight>>

\* /consumo ...: parse; a non-positive total answers with the usage text
SendConsumo(username, arg) ==
    LET parsed == ParseConsumo(arg)
        total  == parsed.kcal + parsed.protein_g + parsed.carbs_g + parsed.fat_g
    IN  /\ CanStart
        /\ started' = started + 1
        /\ IF total <= 0
           THEN /\ SaveExchange(username)
                /\ last' = Some(Served("/consumo", username, 200, "uso", None, None, None))
                /\ UNCHANGED req
           ELSE /\ UNCHANGED <<chat_messages, last>>
                /\ req' = Enter(Request("upsert", "/consumo", username, parsed, None))
        /\ UNCHANGED <<daily_intake, today, ledger_hist>>
        /\ LedgerFrame

\* /refeicao <texto>: build the context, ask the meal model, keep its totals
SendRefeicao(username, described, raw) ==
    /\ CanStart
    /\ started' = started + 1
    /\ IF ~described
       THEN /\ SaveExchange(username)
            /\ last' = Some(Served("/refeicao", username, 200, "uso", None, None, None))
            /\ UNCHANGED req
       ELSE /\ UNCHANGED <<chat_messages, last>>
            /\ req' = Enter([Request("upsert", "/refeicao", username,
                                     AnalyzeMealText(raw).totais,
                                     Some(BuildLinaSystemPrompt(users[username])))
                                 EXCEPT !.meal = Some(AnalyzeMealText(raw))])
    /\ UNCHANGED <<daily_intake, today, ledger_hist>>
    /\ LedgerFrame

\* /limpar_dia
SendLimparDia(username) ==
    /\ CanStart
    /\ started' = started + 1
    /\ req' = Enter(Request("reset", "/limpar_dia", username, ZeroIntake, None))
    /\ UNCHANGED <<daily_intake, chat_messages, today, ledger_hist, last>>
    /\ LedgerFrame

\* /status
SendStatus(username) ==
    /\ CanStart
    /\ started' = started + 1
    /\ req' = Enter(Request("status", "/status", username, ZeroIntake, None))
    /\ UNCHANGED <<daily_intake, chat_messages, today, ledger_hist, last>>
    /\ LedgerFrame

\* _upsert_intake(username, kcal, p, c, f), committed
UpsertStep(q) ==
    /\ q.pc = "upsert"
    /\ daily_intake' = UpsertIntake(daily_intake, q.username, today, q.add.kcal,
                                    q.add.protein_g, q.add.carbs_g, q.add.fat_g)
    /\ LogAdd(q.username, today, q.add)
    /\ req' = Move(q, "status")
    /\ UNCHANGED <<chat_messages, today, started, last>>
    /\ LedgerFrame

\* _reset_intake(username), committed
ResetStep(q) ==
    /\ q.pc = "reset"
    /\ daily_intake' = ResetIntake(daily_intake, q.username, today)
    /\ LogReset(q.username, today)
    /\ req' = Move(q, "status")
    /\ UNCHANGED <<chat_messages, today, started, last>>
    /\ LedgerFrame

\* build_lina_system_prompt (unless /refeicao built it before),
\* _format_status(_get_intake(username), ctx), for /refeicao _format_meal_reply
\* around it, the two chat rows, the response
StatusStep(q) ==
    LET ctx    == IF q.ctx = None THEN BuildLinaSystemPrompt(users[q.username]) ELSE q.ctx[1]
        status == FormatStatus(GetIntake(daily_intake, q.username, today), ctx)
        report == IF q.meal = None THEN status
                  ELSE FormatMealReply(q.meal[1], ctx.targets, status)
    IN  /\ q.pc = "status"
        /\ SaveExchange(q.username)
        /\ last' = Some(Served(q.cmd, q.username, 200, "", Some(ctx), None, Some(report)))
        /\ req' = Leave(q)
        /\ UNCHANGED <<daily_intake, today, started, ledger_hist>>
        /\ LedgerFrame

\* an exception in what is left of the request (a statement of _upsert_intake,
\* _reset_intake or _get_intake, build_lina_system_prompt, the first
\* salvar_chat_message) reaches `except Exception` of send_to_ai: 502.  Each
\* ledger statement ran on a connection of its own and is committed or not
\* by then; the failed request is kept in `sent` with that fact.
FailStep(q) ==
    /\ last' = Some(Served(q.cmd, q.username, 502, "Erro ao conectar com a IA",
                           None, None, None))
    /\ sent' = <<[ path      |-> q.cmd,
                   committed |-> q.cmd # "/status" /\ q.pc = "status" ]>>
    /\ req' = Leave(q)
    /\ UNCHANGED <<daily_intake, chat_messages, today, started, ledger_hist>>
    /\ UNCHANGED <<users, prior, order_args, order_runs, order_phase, accounts, hooks,
                   outbox, weight_logs, meals, initial_weight>>

\* midnight UTC
Tick ==
    /\ today < MaxDay
    /\ today' = today + 1
    /\ UNCHANGED <<daily_intake, chat_messages, req, started, ledger_hist, last>>
    /\ LedgerFrame

NoPrior == [blocked |-> FALSE, confirm |-> None]

InitOther ==
    /\ last = None
    /\ prior = NoPrior
    /\ order_args = << >>
    /\ order_runs = << >>
    /\ order_phase = 0
    /\ accounts = NoAccounts
    /\ hooks = << >>
    /\ outbox = {}
    /\ sent = << >>
    /\ weight_logs = {}
    /\ meals = {}
    /\ initial_weight = [u \in Usernames |-> None]

InitLedger ==
    /\ users \in { [u \in Usernames |-> IF u = "ana" THEN LowCalorieRow ELSE SignupRow],
                   [u \in Usernames |-> IF u = "ana" THEN ExampleRow ELSE PartialRow] }
    /\ daily_intake = {}
    /\ chat_messages = [u \in Usernames |-> 0]
    /\ today = 0
    /\ req = EmptyBag
    /\ started = 0
    /\ ledger_hist = [k \in Usernames \X (0 .. MaxDay) |-> NoHistory]
    /\ InitOther

NextLedger ==
    \/ \E u \in Usernames, arg \in ConsumoArgs : SendConsumo(u, arg)
    \/ \E u \in Usernames, d \in BOOLEAN, raw \in MealRaws : SendRefeicao(u, d, raw)
    \/ \E u \in Usernames : SendLimparDia(u)
    \/ \E u \in Usernames : SendStatus(u)
    \/ \E q \in BagToSet(req) : UpsertStep(q)
    \/ \E q \in BagToSet(req) : ResetStep(q)
    \/ \E q \in BagToSet(req) : StatusStep(q)
    \/ Tick

SpecLedger == InitLedger /\ [][NextLedger]_vars

-----------------------------------------------------------------------------
(* The ledger claims, checked under SpecLedger *)

Keys == Usernames \X (0 .. MaxDay)

Nutrients == {"kcal", "protein_g", "carbs_g", "fat_g"}

StoredRows(k) == RowsOf(daily_intake, k[1], k[2])

StoredSums(k) == GetIntake(daily_intake, k[1], k[2])

\* the step commits the _upsert_intake of request q / the _reset_intake of q /
\* serves q's status report
UpsertCommits(q) == q.pc = "upsert" /\ req' = Move(q, "status")

ResetCommits(q) == q.pc = "reset" /\ req' = Move(q, "status")

StatusServed(q) == q.pc = "status" /\ req' = Leave(q) /\ last'[1].status = 200

IsAdd(q) == q.cmd \in {"/consumo", "/refeicao"}

\* C1: under any interleaving of concurrent /consumo and /refeicao requests
\* the sums stored for a (user, day) are the initial sums (zero) plus all the
\* amounts the committed adds contributed since the last reset: none is lost.
C1_NoLostUpdate ==
    \A k \in Keys : StoredSums(k) = ledger_hist[k].contributed

\* two adds on the same key were in flight together, both are committed and
\* the stored sums hold both contributions
C1_ConcurrentAddsBothStored ==
    \E q1 \in BagToSet(req), q2 \in BagToSet(req) :
        /\ q1.pc = "status" /\ q2.pc = "status" /\ IsAdd(q1) /\ IsAdd(q2)
        /\ q1.username = q2.username
        /\ q1 # q2 \/ CopiesIn(q1, req) >= 2
        /\ q1.add.kcal > 0 /\ q2.add.kcal > 0
        /\ StoredSums(<<q1.username, today>>) = Plus(q1.add, q2.add)

\* C2: no add, from /consumo or from /refeicao, lowers a stored sum, and
\* every stored sum is non-negative.
C2_AddsNeverDecrease ==
    [][ /\ \A q \in BagToSet(req) : UpsertCommits(q) =>
              \A n \in Nutrients :
                  GetIntake(daily_intake', q.username, today)[n]
                      >= GetIntake(daily_intake, q.username, today)[n]
        /\ \A row \in daily_intake' : \A n \in Nutrients : row[n] >= 0 ]_vars

\* C4: a committed reset leaves the day's record in place with all four sums
\* zero, whatever was stored before and also when there was no record, and a
\* get on the state it leaves returns all-zero.
C4_ResetZeroes ==
    [][ \A q \in BagToSet(req) : ResetCommits(q) =>
            /\ RowsOf(daily_intake', q.username, today)
                   = {IntakeRow(q.username, today, 0, 0, 0, 0)}
            /\ GetIntake(daily_intake', q.username, today) = ZeroIntake ]_vars

\* a /limpar_dia was served on a key whose sums were not zero, and reported
\* nothing consumed
C4_ResetAfterIntake ==
    /\ last # None
    /\ last[1].op = "/limpar_dia"
    /\ last[1].status = 200
    /\ ledger_hist[<<last[1].username, today>>].cleared
    /\ StoredSums(<<last[1].username, today>>) = ZeroIntake
    /\ last[1].report[1].consumed = ZeroIntake

\* C5: a (user, day) has at most one record; it has one exactly when an add
\* or a reset was committed on it; no step removes a record; serving a status
\* report (the get) creates none and reports zero where there is none.
C5_OneLazyRecord ==
    /\ [](\A k \in Keys : /\ Cardinality(StoredRows(k)) <= 1
                          /\ (StoredRows(k) # {}) = ledger_hist[k].touched)
    /\ [][ /\ \A k \in Keys : StoredRows(k) # {} => RowsOf(daily_intake', k[1], k[2]) # {}
           /\ \A q \in BagToSet(req) : StatusServed(q) =>
                  /\ daily_intake' = daily_intake
                  /\ (RowsOf(daily_intake, q.username, today) = {}
                        => last'[1].report[1].consumed = ZeroIntake) ]_vars

\* a /status was served for a key without a record while another key has one
C5_GetWithoutRecord ==
    /\ last # None
    /\ last[1].op = "/status"
    /\ last[1].status = 200
    /\ StoredRows(<<last[1].username, today>>) = {}
    /\ last[1].report[1].consumed = ZeroIntake
    /\ \E k \in Keys : StoredRows(k) # {} /\ StoredSums(k) # ZeroIntake

\* the consumed figures of a status report over the stored sums
ConsumedFigures(sums) == [n \in Nutrients |-> RoundHalfEven(sums[n], 2)]

\* C9: whenever targets are available, the status report gives for each of
\* kcal, protein, carbohydrate and fat the remaining amount
\* max(0, target - consumed), never a negative one.
C9_RemainingIsTargetMinusConsumed ==
    (last # None /\ last[1].report # None /\ last[1].ctx[1].targets # None)
        => \A n \in Nutrients :
               last[1].report[1].remaining[n]
                   = Some(Max(0, last[1].ctx[1].targets[1].targets[n]
                                   - last[1].report[1].consumed[n]))

-----------------------------------------------------------------------------
(* SpecOrder: two /consumo directives of one user on one day, applied to the
   same starting ledger in the order a, b, in the order b, a, and as one add
   of the summed amounts.  Each run has its own copy of the table. *)

OrderUser == "ana"

\* directives: the ones of ConsumoArgs (`kcal=700 p=50 c=80 f=20` among them)
\* and `kcal=0.5 c=12.5 x=9 cal=250.5` (an unknown key, a repeated nutrient)
OrderArgs ==
    ConsumoArgs \cup
    { ConsumoArg("pairs", 0, << <<"kcal", 1>>, <<"c", 25>>, <<"x", 18>>, <<"cal", 501>> >>) }

\* starting ledgers: no record at all, a record of the user for the day, a
\* record of another user only
OrderStarts ==
    { {},
      {IntakeRow(OrderUser, 0, 601, 11, 0, 3)},
      {IntakeRow("bia", 0, 300, 0, 2, 0)} }

Total(amount) == amount.kcal + amount.protein_g + amount.carbs_g + amount.fat_g

\* the /consumo branch of send_to_ai on a table: nothing is stored when the
\* parsed amounts add up to 0 or less, else _upsert_intake
ConsumoAdd(table, amount) ==
    IF Total(amount) <= 0 THEN table
    ELSE UpsertIntake(table, OrderUser, today, amount.kcal, amount.protein_g,
                      amount.carbs_g, amount.fat_g)

OrderFrame ==
    UNCHANGED <<users, daily_intake, chat_messages, today, req, started,
                ledger_hist, last, prior, order_args, accounts, hooks, outbox,
                sent, weight_logs, meals, initial_weight>>

\* the next directive of the run "ab": a, then b
OrderAddAB ==
    /\ order_phase.ab < 2
    /\ order_runs' = [order_runs EXCEPT !.ab =
           ConsumoAdd(@, ParseConsumo(order_args[order_phase.ab + 1]))]
    /\ order_phase' = [order_phase EXCEPT !.ab = @ + 1]
    /\ OrderFrame

\* the next directive of the run "ba": b, then a
OrderAddBA ==
    /\ order_phase.ba < 2
    /\ order_runs' = [order_runs EXCEPT !.ba =
           ConsumoAdd(@, ParseConsumo(order_args[2 - order_phase.ba]))]
    /\ order_phase' = [order_phase EXCEPT !.ba = @ + 1]
    /\ OrderFrame

\* the run "sum": one add of the summed amounts
OrderAddSum ==
    /\ order_phase.sum < 1
    /\ order_runs' = [order_runs EXCEPT !.sum =
           ConsumoAdd(@, Plus(ParseConsumo(order_args[1]), ParseConsumo(order_args[2])))]
    /\ order_phase' = [order_phase EXCEPT !.sum = 1]
    /\ OrderFrame

InitOrder ==
    /\ users = [u \in Usernames |-> SignupRow]
    /\ daily_intake \in OrderStarts
    /\ chat_messages = [u \in Usernames |-> 0]
    /\ today = 0
    /\ req = EmptyBag
    /\ started = 0
    /\ ledger_hist = [k \in Usernames \X (0 .. MaxDay) |-> NoHistory]
    /\ last = None
    /\ prior = NoPrior
    /\ order_args \in OrderArgs \X OrderArgs
    /\ order_runs = [ab |-> daily_intake, ba |-> daily_intake, sum |-> daily_intake]
    /\ order_phase = [ab |-> 0, ba |-> 0, sum |-> 0]
    /\ accounts = NoAccounts
    /\ hooks = << >>
    /\ outbox = {}
    /\ sent = << >>
    /\ weight_logs = {}
    /\ meals = {}
    /\ initial_weight = [u \in Usernames |-> None]

NextOrder ==
    \/ OrderAddAB
    \/ OrderAddBA
    \/ OrderAddSum

SpecOrder == InitOrder /\ [][NextOrder]_vars

OrderDone == order_phase = [ab |-> 2, ba |-> 2, sum |-> 1]

ExampleDirective ==
    ConsumoArg("pairs", 0, << <<"kcal", 1400>>, <<"p", 100>>, <<"c", 160>>, <<"f", 40>> >>)

\* C3: for one user and day, add(a) then add(b), add(b) then add(a) and a
\* single add(a+b) leave the ledger in the same state, with or without a
\* record before; `kcal=700 p=50 c=80 f=20` twice on an empty day gives
\* kcal 1400, protein 100, carbs 160, fat 40.
C3_AdditiveAnyOrder ==
    OrderDone =>
        /\ order_runs.ab = order_runs.ba
        /\ order_runs.ab = order_runs.sum
        /\ GetIntake(order_runs.ab, OrderUser, today)
               = Plus(GetIntake(daily_intake, OrderUser, today),
                      Plus(ParseConsumo(order_args[1]), ParseConsumo(order_args[2])))
        /\ (order_args = <<ExampleDirective, ExampleDirective>>
              /\ RowsOf(daily_intake, OrderUser, today) = {})
             => ConsumedFigures(GetIntake(order_runs.ab, OrderUser, today))
                    = [kcal |-> 1400, protein_g |-> 100, carbs_g |-> 160, fat_g |-> 40]

\* two different directives, each adding something, were applied in both
\* orders and summed on a day that already had a record
C3_BothOrdersOnExistingRecord ==
    /\ OrderDone
    /\ order_args[1] # order_args[2]
    /\ Total(ParseConsumo(order_args[1])) > 0
    /\ Total(ParseConsumo(order_args[2])) > 0
    /\ ParseConsumo(order_args[1]) # ParseConsumo(order_args[2])
    /\ RowsOf(daily_intake, OrderUser, today) # {}
    /\ GetIntake(order_runs.ab, OrderUser, today) # GetIntake(daily_intake, OrderUser, today)

-----------------------------------------------------------------------------
(* SpecProfile: one user's profile under the chat directives /perfil,      *)
(* /confirmar_kcal_baixa, /revogar_kcal_baixa and /status, under           *)
(* PUT /nutrition/profile and PATCH /user, and read by                     *)
(* GET /nutrition/targets.  Each request is served in one step: the        *)
(* requests of one user do not overlap here.  The columns pace_kg_per_week *)
(* and restrictions, which no calculator reads, are left out.              *)

ProfileUser == "ana"

\* a patch: per column, the new value or nothing
EmptyPatch ==
    [ sex |-> None, age |-> None, height_cm |-> None, current_weight |-> None,
      activity_level |-> None, goal_type |-> None, objetivo |-> None,
      confirm_low_calorie |-> None ]

\* _KEY_MAP ("" for a key it does not have)
KeyMap(k) ==
    CASE k \in {"sex", "sexo"} -> "sex"
      [] k \in {"age", "idade"} -> "age"
      [] k \in {"height", "altura", "height_cm"} -> "height_cm"
      [] k \in {"weight", "peso", "current_weight"} -> "current_weight"
      [] k \in {"activity", "atividade", "activity_level"} -> "activity_level"
      [] k \in {"goal", "objetivo", "goal_type"} -> "goal_type"
      [] k = "confirm_low_calorie" -> "confirm_low_calorie"
      [] OTHER -> ""

\* str.upper() and str.lower() on the words used here
Upper(v) ==
    CASE v = "m" -> "M" [] v = "f" -> "F" [] v = "x" -> "X" [] OTHER -> v

Lower(v) ==
    CASE v = "GAIN" -> "gain" [] v = "Perder" -> "perder" [] v = "SIM" -> "sim"
      [] v = "/Revogar_Kcal_Baixa" -> "/revogar_kcal_baixa"
      [] v = "Oi" -> "oi"
      [] OTHER -> v

\* a value of the /perfil text: a number (n present) or another word (s)
Num(n) == [n |-> Some(n), s |-> ""]

Word(w) == [n |-> None, s |-> w]

\* the goal_type branch of _parse_perfil_cmd: val.startswith("perd"),
\* ("mant"), ("ganh") or "massa" in val
ParsePerfilGoal(v) ==
    LET val == Lower(v)
    IN  IF val \in {"lose", "maintain", "gain"} THEN Some(val)
        ELSE IF val \in {"perder", "perda"} THEN Some("lose")
        ELSE IF val \in {"manter", "mantenho"} THEN Some("maintain")
        ELSE IF val \in {"ganhar", "massa", "ganho de massa"} THEN Some("gain")
        ELSE None

\* the loop of _parse_perfil_cmd over the key=value parts
RECURSIVE ParsePerfilParts(_, _)
ParsePerfilParts(parts, out) ==
    IF parts = << >> THEN out
    ELSE LET key == KeyMap(Head(parts)[1])
             v   == Head(parts)[2]
             nxt == CASE key \in {"age", "height_cm", "current_weight", "activity_level"} ->
                            IF v.n # None THEN [out EXCEPT ![key] = v.n] ELSE out
                      [] key = "confirm_low_calorie" ->
                            [out EXCEPT ![key] =
                                Some(Lower(v.s) \in {"1", "true", "t", "yes", "sim", "y"})]
                      [] key = "goal_type" ->
                            IF ParsePerfilGoal(v.s) # None
                            THEN [out EXCEPT ![key] = ParsePerfilGoal(v.s)] ELSE out
                      [] key = "sex" ->
                            IF Upper(v.s) \in {"M", "F"}
                            THEN [out EXCEPT ![key] = Some(Upper(v.s))] ELSE out
                      [] OTHER -> out
         IN  ParsePerfilParts(Tail(parts), nxt)

\* _parse_perfil_cmd
ParsePerfilCmd(parts) == ParsePerfilParts(parts, EmptyPatch)

\* the range checks of _validate_profile_patch and of _validate_update: the
\* detail of the HTTPException(422) raised, "" when none is
RangeDetail(p) ==
    IF p.age # None /\ ~(14 <= p.age[1] /\ p.age[1] <= 100)
    THEN "age deve estar entre 14 e 100."
    ELSE IF p.height_cm # None /\ ~(120 <= p.height_cm[1] /\ p.height_cm[1] <= 230)
    THEN "height_cm deve estar entre 120 e 230."
    ELSE IF p.current_weight # None
            /\ ~(25 <= p.current_weight[1] /\ p.current_weight[1] <= 400)
    THEN "current_weight deve estar entre 25 e 400."
    ELSE IF p.activity_level # None /\ p.activity_level[1] \notin ALLOWED_ACTIVITY
    THEN "activity_level deve ser um de [1.2, 1.375, 1.55, 1.725, 1.9]."
    ELSE ""

\* _validate_profile_patch
ValidateProfilePatch(p) ==
    IF RangeDetail(p) # "" THEN RangeDetail(p)
    ELSE IF p.sex # None /\ p.sex[1] \notin {"M", "F"} THEN "sex deve ser 'M' ou 'F'."
    ELSE IF p.goal_type # None /\ p.goal_type[1] \notin {"lose", "maintain", "gain"}
    THEN "goal_type deve ser 'lose', 'maintain' ou 'gain'."
    ELSE ""

\* an UPDATE that also writes the columns the patch does not carry
SetColumnsWithNulls(row, p) ==
    [ sex                 |-> p.sex,
      age                 |-> p.age,
      height_cm           |-> p.height_cm,
      current_weight      |-> p.current_weight,
      activity_level      |-> p.activity_level,
      goal_type           |-> p.goal_type,
      objetivo            |-> row.objetivo,
      confirm_low_calorie |-> IF p.confirm_low_calorie # None THEN p.confirm_low_calorie[1]
                              ELSE FALSE ]

\* the UPDATE of _patch_profile and of _do_update: the columns the patch has
SetColumns(row, p) ==
    [ sex                 |-> IF p.sex # None THEN p.sex ELSE row.sex,
      age                 |-> IF p.age # None THEN p.age ELSE row.age,
      height_cm           |-> IF p.height_cm # None THEN p.height_cm ELSE row.height_cm,
      current_weight      |-> IF p.current_weight # None THEN p.current_weight
                              ELSE row.current_weight,
      activity_level      |-> IF p.activity_level # None THEN p.activity_level
                              ELSE row.activity_level,
      goal_type           |-> IF p.goal_type # None THEN p.goal_type ELSE row.goal_type,
      objetivo            |-> row.objetivo,
      confirm_low_calorie |-> IF p.confirm_low_calorie # None THEN p.confirm_low_calorie[1]
                              ELSE row.confirm_low_calorie ]

\* _patch_profile
PatchProfile(row, p) == SetColumns(row, p)

\* the body schema NutritionProfileUpdate: "" or the field FastAPI rejects
NutritionProfileUpdateDetail(data) ==
    IF data.sex # None /\ data.sex[1] \notin {"M", "F", "m", "f"} THEN "sex"
    ELSE IF data.goal_type # None /\ data.goal_type[1] \notin {"lose", "maintain", "gain"}
    THEN "goal_type"
    ELSE ""

\* _validate_update
ValidateUpdate(data) == RangeDetail(data)

\* _do_update, after put_profile upper-cased sex
DoUpdate(row, data) ==
    SetColumns(row, [data EXCEPT !.sex = IF @ = None THEN None ELSE Some(Upper(@[1]))])

\* the "validacoes rapidas" of update_profile (PATCH /user)
UserUpdateDetail(updates) ==
    IF updates.sex # None /\ updates.sex[1] \notin {"M", "F"} THEN "sex deve ser 'M' ou 'F'."
    ELSE IF updates.activity_level # None /\ updates.activity_level[1] \notin ALLOWED_ACTIVITY
    THEN "activity_level deve ser um de 1.2, 1.375, 1.55, 1.725, 1.9."
    ELSE IF updates.goal_type # None
            /\ updates.goal_type[1] \notin {"lose", "maintain", "gain"}
    THEN "goal_type deve ser 'lose', 'maintain' ou 'gain'."
    ELSE ""

\* the setattr loop of update_profile
SetAttrs(row, updates) ==
    [SetColumns(row, updates) EXCEPT
        !.objetivo = IF updates.objetivo # None THEN updates.objetivo ELSE row.objetivo]

MaxChatRows == 4    \* chat rows one user may have stored in SpecProfile

With(field, value) == [EmptyPatch EXCEPT ![field] = Some(value)]

FullPatch(sex, age, height_cm, weight, activity, goal) ==
    [ EmptyPatch EXCEPT !.sex = Some(sex), !.age = Some(age), !.height_cm = Some(height_cm),
                        !.current_weight = Some(weight), !.activity_level = Some(activity),
                        !.goal_type = Some(goal) ]

\* the key=value parts of the /perfil messages sent.  Here and in the bodies
\* below the height comes with a whole profile only.
PerfilTexts ==
    { << >>,
      << <<"sexo", Word("f")>> >>, << <<"sex", Word("x")>> >>,
      << <<"idade", Num(25)>> >>, << <<"age", Num(13)>> >>, << <<"age", Word("abc")>> >>,
      << <<"height", Num(119)>> >>, << <<"peso", Num(60)>> >>,
      << <<"atividade", Num(50)>> >>,
      << <<"objetivo", Word("Perder")>> >>, << <<"goal", Word("GAIN")>> >>,
      << <<"goal", Word("bulk")>> >>,
      << <<"confirm_low_calorie", Word("SIM")>> >>, << <<"confirm_low_calorie", Word("nao")>> >>,
      << <<"cor", Word("azul")>> >>,
      << <<"sex", Word("F")>>, <<"age", Num(25)>>, <<"height", Num(165)>>,
         <<"weight", Num(60)>>, <<"activity", Num(48)>>, <<"goal", Word("lose")>> >>,
      << <<"sexo", Word("f")>>, <<"idade", Num(100)>>, <<"altura", Num(120)>>,
         <<"peso", Num(40)>>, <<"atividade", Num(48)>>, <<"objetivo", Word("perder")>>,
         <<"confirm_low_calorie", Word("true")>> >>,
      << <<"goal", Word("gain")>>, <<"age", Num(13)>> >>,
      << <<"idade", Word("abc")>>, <<"peso", Num(40)>> >> }

\* bodies of PUT /nutrition/profile
PutBodies ==
    { EmptyPatch,
      With("sex", "f"), With("sex", "M"), With("sex", "X"),
      With("age", 25), With("age", 100), With("age", 13),
      With("height_cm", 231),
      With("current_weight", 60), With("current_weight", 40), With("current_weight", 401),
      With("activity_level", 48), With("activity_level", 50),
      With("goal_type", "lose"), With("goal_type", "maintain"), With("goal_type", "gain"),
      With("goal_type", "bulk"),
      With("confirm_low_calorie", TRUE), With("confirm_low_calorie", FALSE),
      FullPatch("M", 100, 120, 40, 48, "lose") }

\* bodies of PATCH /user
PatchBodies ==
    { EmptyPatch,
      With("sex", "F"), With("sex", "M"), With("sex", "f"),
      With("age", 25), With("age", 100), With("age", 13),
      With("current_weight", 60), With("current_weight", 40),
      With("activity_level", 62), With("activity_level", 50),
      With("goal_type", "lose"), With("goal_type", "gain"), With("goal_type", "bulk"),
      With("confirm_low_calorie", TRUE), With("confirm_low_calorie", FALSE) }

\* GET /nutrition/targets would answer 200 with blocked = true / false
Blocked(row) == GetTargets(row).status = 200 /\ GetTargets(row).body[1].blocked

Unblocked(row) == GetTargets(row).status = 200 /\ ~GetTargets(row).body[1].blocked

Met(username, confirm) == [blocked |-> Blocked(users[username]), confirm |-> confirm]

ProfileFrame ==
    UNCHANGED <<daily_intake, today, req, started, ledger_hist,
                order_args, order_runs, order_phase, accounts, hooks, outbox,
                weight_logs, meals, initial_weight>>

CanSave(username) == chat_messages[username] + 2 <= MaxChatRows

\* send_to_ai, "/perfil ...": the usage reply when nothing was parsed; 502 when
\* _validate_profile_patch raises (the handler's `except Exception` catches
\* the HTTPException); else _patch_profile, the context and the summary
SendPerfil(username, parts) ==
    LET patch  == ParsePerfilCmd(parts)
        detail == ValidateProfilePatch(patch)
        row    == PatchProfile(users[username], patch)
    IN  /\ CanSave(username)
        /\ prior' = Met(username, patch.confirm_low_calorie)
        /\ IF patch = EmptyPatch
           THEN /\ SaveExchange(username)
                /\ last' = Some(Served("/perfil", username, 200, "uso", None, None, None))
                /\ UNCHANGED users
           ELSE IF detail # ""
           THEN /\ last' = Some(Served("/perfil", username, 502, detail, None, None, None))
                /\ UNCHANGED <<users, chat_messages>>
           ELSE /\ users' = [users EXCEPT ![username] = row]
                /\ SaveExchange(username)
                /\ last' = Some(Served("/perfil", username, 200, "",
                                       Some(BuildLinaSystemPrompt(row)), None, None))
        /\ ProfileFrame

\* send_to_ai, "/confirmar_kcal_baixa"
SendConfirmar(username) ==
    /\ CanSave(username)
    /\ prior' = Met(username, Some(TRUE))
    /\ users' = [users EXCEPT ![username] =
                    PatchProfile(@, With("confirm_low_calorie", TRUE))]
    /\ SaveExchange(username)
    /\ last' = Some(Served("/confirmar_kcal_baixa", username, 200, "", None, None, None))
    /\ ProfileFrame

\* send_to_ai, "/revogar_kcal_baixa"
SendRevogar(username) ==
    /\ CanSave(username)
    /\ prior' = Met(username, Some(FALSE))
    /\ users' = [users EXCEPT ![username] =
                    PatchProfile(@, With("confirm_low_calorie", FALSE))]
    /\ SaveExchange(username)
    /\ last' = Some(Served("/revogar_kcal_baixa", username, 200, "", None, None, None))
    /\ ProfileFrame

\* send_to_ai, "/status", served without another request in between
SendStatusAlone(username) ==
    LET ctx    == BuildLinaSystemPrompt(users[username])
        report == FormatStatus(GetIntake(daily_intake, username, today), ctx)
    IN  /\ CanSave(username)
        /\ prior' = Met(username, None)
        /\ SaveExchange(username)
        /\ last' = Some(Served("/status", username, 200, "", Some(ctx), None, Some(report)))
        /\ UNCHANGED users
        /\ ProfileFrame

\* put_profile (PUT /nutrition/profile)
PutProfile(username, data) ==
    LET schema == NutritionProfileUpdateDetail(data)
        detail == ValidateUpdate(data)
    IN  /\ prior' = Met(username, data.confirm_low_calorie)
        /\ IF schema # ""
           THEN /\ last' = Some(Served("PUT /nutrition/profile", username, 422, schema,
                                       None, None, None))
                /\ UNCHANGED users
           ELSE IF detail # ""
           THEN /\ last' = Some(Served("PUT /nutrition/profile", username, 422, detail,
                                       None, None, None))
                /\ UNCHANGED users
           ELSE /\ users' = [users EXCEPT ![username] = DoUpdate(@, data)]
                /\ last' = Some(Served("PUT /nutrition/profile", username, 200, "",
                                       None, None, None))
        /\ UNCHANGED chat_messages
        /\ ProfileFrame

\* update_profile (PATCH /user)
UpdateProfile(username, updates) ==
    LET detail == UserUpdateDetail(updates)
    IN  /\ prior' = Met(username, updates.confirm_low_calorie)
        /\ IF updates = EmptyPatch
           THEN /\ last' = Some(Served("PATCH /user", username, 400,
                                       "Nenhum campo para atualizar.", None, None, None))
                /\ UNCHANGED users
           ELSE IF detail # ""
           THEN /\ last' = Some(Served("PATCH /user", username, 422, detail,
                                       None, None, None))
                /\ UNCHANGED users
           ELSE /\ users' = [users EXCEPT ![username] = SetAttrs(@, updates)]
                /\ last' = Some(Served("PATCH /user", username, 200, "", None, None, None))
        /\ UNCHANGED chat_messages
        /\ ProfileFrame

\* get_targets (GET /nutrition/targets), served
ServeTargets(username) ==
    LET r == GetTargets(users[username])
    IN  /\ prior' = Met(username, None)
        /\ last' = Some(Served("GET /nutrition/targets", username, r.status, r.detail,
                               None, r.body, None))
        /\ UNCHANGED <<users, chat_messages>>
        /\ ProfileFrame

InitProfile ==
    /\ users = [u \in Usernames |-> SignupRow]
    /\ daily_intake = {}
    /\ chat_messages = [u \in Usernames |-> 0]
    /\ today = 0
    /\ req = EmptyBag
    /\ started = 0
    /\ ledger_hist = [k \in Usernames \X (0 .. MaxDay) |-> NoHistory]
    /\ InitOther

NextProfile ==
    \/ UNCHANGED sent /\ \E parts \in PerfilTexts : SendPerfil(ProfileUser, parts)
    \/ UNCHANGED sent /\ SendConfirmar(ProfileUser)
    \/ UNCHANGED sent /\ SendRevogar(ProfileUser)
    \/ UNCHANGED sent /\ SendStatusAlone(ProfileUser)
    \/ UNCHANGED sent /\ \E data \in PutBodies : PutProfile(ProfileUser, data)
    \/ UNCHANGED sent /\ \E updates \in PatchBodies : UpdateProfile(ProfileUser, updates)
    \/ UNCHANGED sent /\ ServeTargets(ProfileUser)

SpecProfile == InitProfile /\ [][NextProfile]_vars

-----------------------------------------------------------------------------
(* The safety floor claims, checked under SpecProfile *)

\* the goal-adjusted kcal of a profile (over 16000) and its floor
AdjustedKcal16000(profile) ==
    GoalKcal16000(profile.sex[1], profile.age, profile.height_cm, profile.current_weight,
                  profile.activity_level, profile.goal_type)

FloorOf(profile) == IF profile.sex[1] = "F" THEN 1200 ELSE 1400

BelowFloor(profile) == AdjustedKcal16000(profile) < FloorOf(profile) * 16000

\* the rule for confirm_low_calorie = false on one calculator's output
UnconfirmedRule(profile, out) ==
    IF BelowFloor(profile)
    THEN out.targets.kcal = FloorOf(profile) /\ Len(out.warnings) >= 1 /\ out.blocked
    ELSE ~out.blocked /\ out.warnings = << >>

\* the rule for confirm_low_calorie = true and a kcal below the floor
ConfirmedRule(profile, out) ==
    /\ out.targets.kcal = Round5(AdjustedKcal16000(profile), 16000)
    /\ Len(out.warnings) >= 1
    /\ ~out.blocked

\* C6: for every complete profile with confirm_low_calorie = false, in
\* GET /nutrition/targets and in the chat context: a goal-adjusted kcal below
\* the floor (1200 F, 1400 M) gives the floor as kcal target, a warning and
\* blocked = true; otherwise blocked = false and no warning.  F, 25 y, 165 cm,
\* 60 kg, 1.2, lose is not clamped (kcal target 1370).
C6_FloorWithoutConfirmation ==
    \A u \in Usernames :
        LET row == users[u]
            got == GetTargets(row)
            ctx == BuildLinaSystemPrompt(row)
        IN  /\ ~row.confirm_low_calorie =>
                /\ got.status = 200 => UnconfirmedRule(FetchProfile(row), got.body[1])
                /\ ctx.targets # None => UnconfirmedRule(LoadProfile(row), ctx.targets[1])
                /\ (last # None /\ last[1].username = u /\ last[1].targets # None)
                       => UnconfirmedRule(FetchProfile(row), last[1].targets[1])
                /\ (last # None /\ last[1].username = u /\ last[1].ctx # None
                                /\ last[1].ctx[1].targets # None)
                       => UnconfirmedRule(LoadProfile(row), last[1].ctx[1].targets[1])
            /\ row = ExampleRow =>
                /\ got.status = 200 /\ ~got.body[1].blocked
                /\ got.body[1].targets.kcal = 1370
                /\ ctx.targets # None /\ ~ctx.targets[1].blocked
                /\ ctx.targets[1].targets.kcal = 1370

\* GET /nutrition/targets was served to an unconfirmed woman whose computed
\* kcal is below the floor: blocked, with the floor as target
C6_BlockedTargetsServed ==
    /\ last # None
    /\ last[1].op = "GET /nutrition/targets"
    /\ last[1].status = 200
    /\ ~users[last[1].username].confirm_low_calorie
    /\ users[last[1].username].sex = Some("F")
    /\ BelowFloor(FetchProfile(users[last[1].username]))
    /\ last[1].targets[1].blocked
    /\ last[1].targets[1].targets.kcal = 1200

\* C7: for every complete profile with confirm_low_calorie = true whose
\* goal-adjusted kcal is below the floor, GET /nutrition/targets and the chat
\* context alike keep the lower computed kcal, carry an informational warning
\* and have blocked = false.
C7_ConfirmedKeepsLowerKcal ==
    \A u \in Usernames :
        LET row == users[u]
            got == GetTargets(row)
            ctx == BuildLinaSystemPrompt(row)
        IN  row.confirm_low_calorie =>
                /\ (got.status = 200 /\ BelowFloor(FetchProfile(row)))
                       => ConfirmedRule(FetchProfile(row), got.body[1])
                /\ (ctx.targets # None /\ BelowFloor(LoadProfile(row)))
                       => ConfirmedRule(LoadProfile(row), ctx.targets[1])

\* what the calculators read of a row
CalculatorInputs(row) ==
    <<row.sex, row.age, row.height_cm, row.current_weight, row.activity_level,
      row.goal_type, row.objetivo>>

ProfileUpdateOps == {"/perfil", "PUT /nutrition/profile", "PATCH /user"}

-----------------------------------------------------------------------------
(* The meal reply of /refeicao, checked under SpecLedger *)

\* a meal's contribution of nutrient n (in halves) exceeds the target by more
\* than 5% of the target
ExceedsByFivePercent(amount2, target) ==
    /\ amount2 > 2 * target
    /\ (amount2 - 2 * target) * 100 > 5 * 2 * target

\* C11: when /refeicao is answered for a user with targets, for each of kcal,
\* protein, carbohydrate and fat on its own: if the meal's contribution
\* exceeds the daily target and the excess is more than 5% of the target, the
\* reply carries a warning naming that nutrient.
C11_MealWarnings ==
    [][ \A q \in BagToSet(req) :
            (StatusServed(q) /\ q.meal # None /\ q.ctx[1].targets # None) =>
                \A n \in Nutrients :
                    ExceedsByFivePercent(q.meal[1].totais[n], q.ctx[1].targets[1].targets[n])
                        => n \in last'[1].report[1].warnings ]_vars

\* C16: a /refeicao whose meal model answered with text that cannot be parsed
\* is served with status 200, an all-zero estimate and an empty item list, and
\* its add leaves the day's ledger sums as they were.
C16_UnparsedMealFallback ==
    [][ \A q \in BagToSet(req) :
            (q.meal # None /\ ~q.meal[1].raw.parses) =>
                /\ UpsertCommits(q) =>
                       GetIntake(daily_intake', q.username, today)
                           = GetIntake(daily_intake, q.username, today)
                /\ StatusServed(q) =>
                       /\ last'[1].op = "/refeicao"
                       /\ last'[1].status = 200
                       /\ last'[1].report[1].items = 0
                       /\ last'[1].report[1].macros = ZeroIntake ]_vars

\* a /refeicao with an unparseable answer was served on a day that already had
\* intake, which is still there
C16_FallbackServed ==
    /\ last # None
    /\ last[1].op = "/refeicao"
    /\ last[1].status = 200
    /\ last[1].report # None
    /\ last[1].report[1].items = 0
    /\ last[1].report[1].macros = ZeroIntake
    /\ last[1].report[1].consumed.kcal > 0
    /\ ledger_hist[<<last[1].username, today>>].contributed.kcal > 0
    /\ started = 2

-----------------------------------------------------------------------------
(* Profile validation, checked under SpecProfile *)

NumericColumns == {"age", "height_cm", "current_weight", "activity_level"}

\* a key=value part of a /perfil text whose value its key cannot take
MalformedPart(part) ==
    LET key == KeyMap(part[1])
    IN  \/ key \in NumericColumns /\ part[2].n = None
        \/ key = "sex" /\ Upper(part[2].s) \notin {"M", "F"}
        \/ key = "goal_type" /\ ParsePerfilGoal(part[2].s) = None

\* a column value outside the range the profile allows
OutOfRange(column, value) ==
    \/ column = "age" /\ ~(14 <= value /\ value <= 100)
    \/ column = "height_cm" /\ ~(120 <= value /\ value <= 230)
    \/ column = "current_weight" /\ ~(25 <= value /\ value <= 400)
    \/ column = "activity_level" /\ value \notin {48, 55, 62, 69, 76}

OutOfRangePart(part) ==
    /\ KeyMap(part[1]) \in NumericColumns
    /\ part[2].n # None
    /\ OutOfRange(KeyMap(part[1]), part[2].n[1])

OutOfRangeColumns(body) ==
    {c \in NumericColumns : body[c] # None /\ OutOfRange(c, body[c][1])}

DefectiveText(parts) ==
    \E i \in 1 .. Len(parts) : MalformedPart(parts[i]) \/ OutOfRangePart(parts[i])

\* C12: a /perfil directive with an out-of-range field or a malformed
\* argument is rejected and leaves the stored profile as it was, also when
\* other fields of the directive are valid.
C12_DefectiveDirectiveChangesNothing ==
    [][ \A parts \in PerfilTexts :
            (DefectiveText(parts) /\ SendPerfil(ProfileUser, parts)) =>
                /\ users' = users
                /\ ~(last'[1].status = 200 /\ last'[1].detail = "") ]_vars

\* C13: whatever the sequence of updates through /perfil, PUT
\* /nutrition/profile and PATCH /user, every stored non-null age, height,
\* weight and activity level is within its range, so that no targets are
\* computed from an out-of-range value.
C13_StoredFieldsInRange ==
    \A u \in Usernames :
        /\ \A c \in NumericColumns : users[u][c] # None => ~OutOfRange(c, users[u][c][1])
        /\ (last # None /\ last[1].username = u /\ last[1].targets # None)
               => \A c \in NumericColumns :
                      users[u][c] # None /\ ~OutOfRange(c, users[u][c][1])

\* the message names the column
NamesColumn(detail, column) ==
    \/ column = "age" /\ detail = "age deve estar entre 14 e 100."
    \/ column = "height_cm" /\ detail = "height_cm deve estar entre 120 e 230."
    \/ column = "current_weight" /\ detail = "current_weight deve estar entre 25 e 400."
    \/ column = "activity_level"
         /\ detail \in {"activity_level deve ser um de [1.2, 1.375, 1.55, 1.725, 1.9].",
                        "activity_level deve ser um de 1.2, 1.375, 1.55, 1.725, 1.9."}

ClientError(served, columns) ==
    /\ 400 <= served.status /\ served.status <= 499
    /\ \E c \in columns : NamesColumn(served.detail, c)

\* C14: a profile update carrying an out-of-range age, height, weight or
\* activity level is answered with a 4xx error whose message names the field,
\* through /perfil, PUT /nutrition/profile and PATCH /user alike.
C14_OutOfRangeIsClientError ==
    [][ /\ \A parts \in PerfilTexts :
              (OutOfRangeColumns(ParsePerfilCmd(parts)) # {} /\ SendPerfil(ProfileUser, parts))
                  => ClientError(last'[1], OutOfRangeColumns(ParsePerfilCmd(parts)))
        /\ \A data \in PutBodies :
              (OutOfRangeColumns(data) # {} /\ NutritionProfileUpdateDetail(data) = ""
                 /\ PutProfile(ProfileUser, data))
                  => ClientError(last'[1], OutOfRangeColumns(data))
        /\ \A updates \in PatchBodies :
              (OutOfRangeColumns(updates) # {} /\ UserUpdateDetail(updates) \in
                     {"", "activity_level deve ser um de 1.2, 1.375, 1.55, 1.725, 1.9."}
                 /\ UpdateProfile(ProfileUser, updates))
                  => ClientError(last'[1], OutOfRangeColumns(updates)) ]_vars

\* C15: an incomplete profile (sex missing, or age, height or weight not
\* greater than 0) is never answered with an error: the chat context and
\* GET /nutrition/targets alike give an explicit incomplete result.
C15_IncompleteIsNotAnError ==
    (last # None /\ last[1].op \in {"GET /nutrition/targets", "/status"}
                 /\ ProfileIncomplete(LoadProfile(users[last[1].username])))
        => /\ last[1].status = 200
           /\ last[1].op # "GET /nutrition/targets" => last[1].ctx[1].targets = None

-----------------------------------------------------------------------------
(* Payment webhooks: webhook_kiwify.py, webhook.py, services/email.py *)
(* A hook is one webhook request; its pc is the place its handler has     *)
(* reached.  A send that never completes is a hook that stays at "send"   *)
(* or "task": no step of the program ends it.                             *)

MaxHooks == 2      \* webhook requests received in one behaviour

\* passlib's bcrypt hash of a password
HashPassword(password) == <<"bcrypt", password>>

\* _generate_temp_password: a fresh random string for every call
GenerateTempPassword(id) ==
    CASE id = 1 -> "temp-1" [] id = 2 -> "temp-2" [] id = 3 -> "temp-3" [] OTHER -> "temp-4"

\* str.lower() on the addresses used here
LowerEmail(v) ==
    CASE v = "LEO@Mail.com" -> "leo@mail.com" [] OTHER -> v

\* _is_approved: some approval word occurs in the lowered status and event texts
HasApprovalWord(txt) ==
    CASE txt = "paid" -> TRUE
      [] txt = "order_approved" -> TRUE
      [] txt = "unpaid" -> TRUE
      [] OTHER -> FALSE

LowerStatus(v) ==
    CASE v = "PAID" -> "paid" [] OTHER -> v

IsApproved(payload) ==
    HasApprovalWord(LowerStatus(payload.status)) \/ HasApprovalWord(LowerStatus(payload.event))

\* _get_email_and_name: buyer.email, else email, else nothing
GetEmail(payload) ==
    LET email == LowerEmail(OrElse(payload.buyer_email, OrElse(payload.email, "")))
    IN  IF email = "" THEN None ELSE Some(email)

\* _ensure_access_with_password after _find_user returned `found`: an UPDATE
\* of has_access for a row that was found; else the INSERT with a temporary
\* password, which the unique index on username refuses when a row for the
\* e-mail has been committed since the SELECT (except Exception: (0, None))
EnsureAccessWithPassword(table, found, email, id) ==
    IF found # None
    THEN [ table |-> [table EXCEPT ![email] = Some([@[1] EXCEPT !.has_access = TRUE])],
           updated |-> 1, temp_password |-> None ]
    ELSE IF table[email] = None
    THEN [ table |-> [table EXCEPT ![email] =
                         Some([ has_access |-> TRUE,
                                password_hash |-> HashPassword(GenerateTempPassword(id)) ])],
           updated |-> 1, temp_password |-> Some(GenerateTempPassword(id)) ]
    ELSE [ table |-> table, updated |-> 0, temp_password |-> None ]

\* send_access_email: nothing without the SMTP settings; else the SMTP
\* conversation, whose exception is printed and raised again
SendAccessEmail(configured, smtp) ==
    IF ~configured THEN "skipped"
    ELSE IF smtp = "ok" THEN "sent" ELSE "raised"

SendWelcomeEmailReraises(configured, smtp) == SendAccessEmail(configured, smtp)

\* send_welcome_email of webhook_kiwify.py: try / except Exception: print
SendWelcomeEmail(configured, smtp) ==
    IF SendAccessEmail(configured, smtp) = "raised" THEN "printed"
    ELSE SendAccessEmail(configured, smtp)

\* send_welcome_email of webhook.py: resend.Emails.send in try / except Exception
ResendWelcomeEmail(resend) ==
    IF resend = "ok" THEN "sent" ELSE "printed"

Hook(kind, email, pc, updated, temp_password, response) ==
    [ kind |-> kind, email |-> email, pc |-> pc, updated |-> updated,
      temp_password |-> temp_password, response |-> response, mail |-> "none",
      found |-> None ]

Answer(status, body) == Some([status |-> status, body |-> body])

KiwifyPayloads ==
    { [buyer_email |-> None, email |-> None, status |-> "paid", event |-> ""],
      [buyer_email |-> Some("eva@mail.com"), email |-> None, status |-> "refused", event |-> ""],
      [buyer_email |-> Some("eva@mail.com"), email |-> None, status |-> "PAID", event |-> ""],
      [buyer_email |-> None, email |-> Some("LEO@Mail.com"), status |-> "",
       event |-> "order_approved"] }

DisruptyEvents ==
    { [type |-> "payment.refused", email |-> Some("eva@mail.com")],
      [type |-> "payment.success", email |-> None],
      [type |-> "payment.success", email |-> Some("eva@mail.com")],
      [type |-> "payment.success", email |-> Some("leo@mail.com")] }

WebhookFrame ==
    UNCHANGED <<users, daily_intake, chat_messages, today, req, started, ledger_hist,
                last, prior, order_args, order_runs, order_phase,
                sent, weight_logs, meals, initial_weight>>

\* kiwify_webhook up to the SELECT of _find_user
KiwifyWebhook(payload) ==
    LET email == GetEmail(payload)
    IN  /\ Len(hooks) < MaxHooks
        /\ hooks' = Append(hooks,
               IF email = None
               THEN Hook("kiwify", None, "done", 0, None,
                         Answer(200, [ok |-> TRUE, skipped |-> "no_email"]))
               ELSE IF ~IsApproved(payload)
               THEN Hook("kiwify", email, "done", 0, None,
                         Answer(200, [ok |-> TRUE, skipped |-> "not_approved"]))
               ELSE [Hook("kiwify", email, "write", 0, None, None)
                        EXCEPT !.found = accounts[email[1]]])
        /\ UNCHANGED <<accounts, outbox>>
        /\ WebhookFrame

\* the UPDATE or INSERT of _ensure_access_with_password and its commit
KiwifyWrite(id) ==
    LET h == hooks[id]
        r == EnsureAccessWithPassword(accounts, h.found, h.email[1], id)
    IN  /\ h.pc = "write"
        /\ accounts' = r.table
        /\ hooks' = [hooks EXCEPT ![id] = [h EXCEPT !.pc = "send", !.updated = r.updated,
                                                    !.temp_password = r.temp_password]]
        /\ UNCHANGED outbox
        /\ WebhookFrame

\* POST /user/signup with the e-mail as username: 400 when the name is
\* taken, else a row with the hash of the chosen password and no access
Signup(email) ==
    /\ accounts[email] = None
    /\ accounts' = [accounts EXCEPT ![email] =
           Some([has_access |-> FALSE, password_hash |-> HashPassword("own")])]
    /\ UNCHANGED <<hooks, outbox>>
    /\ WebhookFrame

\* send_welcome_email(email, name, temp_password) comes back to kiwify_webhook
KiwifySend(id, configured, smtp) ==
    LET h       == hooks[id]
        outcome == SendWelcomeEmail(configured, smtp)
    IN  /\ h.pc = "send"
        /\ outbox' = IF outcome = "sent"
                     THEN outbox \cup {[to |-> h.email[1], password |-> h.temp_password]}
                     ELSE outbox
        /\ hooks' = [hooks EXCEPT ![id] =
               IF outcome = "raised"
               THEN [h EXCEPT !.pc = "done", !.mail = outcome,
                              !.response = Answer(500, [detail |-> "Internal Server Error"])]
               ELSE [h EXCEPT !.pc = "respond", !.mail = outcome]]
        /\ UNCHANGED accounts
        /\ WebhookFrame

\* kiwify_webhook returns
KiwifyRespond(id) ==
    LET h == hooks[id]
    IN  /\ h.kind = "kiwify"
        /\ h.pc = "respond"
        /\ hooks' = [hooks EXCEPT ![id] = [h EXCEPT !.pc = "done", !.response =
               Answer(200, [ok |-> TRUE, updated |-> h.updated,
                            new_user |-> h.temp_password # None])]]
        /\ UNCHANGED <<accounts, outbox>>
        /\ WebhookFrame

\* disrupty_payment_webhook up to background_tasks.add_task; grant_ok is
\* whether grant_user_access succeeds
DisruptyWebhook(signature_ok, event, grant_ok) ==
    LET email == event.email
    IN  /\ Len(hooks) < MaxHooks
        /\ IF ~signature_ok
           THEN /\ hooks' = Append(hooks, Hook("disrupty", None, "done", 0, None,
                                   Answer(400, [detail |-> "Invalid signature"])))
                /\ UNCHANGED accounts
           ELSE IF event.type # "payment.success"
           THEN /\ hooks' = Append(hooks, Hook("disrupty", None, "done", 0, None,
                                   Answer(200, [status |-> "ok"])))
                /\ UNCHANGED accounts
           ELSE IF email = None
           THEN /\ hooks' = Append(hooks, Hook("disrupty", None, "done", 0, None,
                                   Answer(200, [status |-> "email_not_found"])))
                /\ UNCHANGED accounts
           ELSE IF accounts[email[1]] = None
           THEN /\ accounts' = [accounts EXCEPT ![email[1]] =
                       Some([ has_access |-> TRUE,
                              password_hash |-> HashPassword("nutriflow123") ])]
                /\ hooks' = Append(hooks, Hook("disrupty", email, "respond", 1,
                                               Some("nutriflow123"), None))
           ELSE IF ~grant_ok
           THEN /\ hooks' = Append(hooks, Hook("disrupty", email, "done", 0, None,
                                   Answer(200, [status |-> "error"])))
                /\ UNCHANGED accounts
           ELSE /\ accounts' = [accounts EXCEPT ![email[1]] =
                       Some([@[1] EXCEPT !.has_access = TRUE])]
                /\ hooks' = Append(hooks, Hook("disrupty", email, "respond", 1,
                                               Some("nutriflow123"), None))
        /\ UNCHANGED outbox
        /\ WebhookFrame

\* disrupty_payment_webhook returns; the background task runs after the response
DisruptyRespond(id) ==
    LET h == hooks[id]
    IN  /\ h.kind = "disrupty"
        /\ h.pc = "respond"
        /\ hooks' = [hooks EXCEPT ![id] = [h EXCEPT !.pc = "task",
                                                    !.response = Answer(200, [status |-> "ok"])]]
        /\ UNCHANGED <<accounts, outbox>>
        /\ WebhookFrame

\* the background task send_welcome_email(customer_email, customer_name) ends
DisruptyTask(id, resend) ==
    LET h       == hooks[id]
        outcome == ResendWelcomeEmail(resend)
    IN  /\ h.pc = "task"
        /\ outbox' = IF outcome = "sent"
                     THEN outbox \cup {[to |-> h.email[1], password |-> h.temp_password]}
                     ELSE outbox
        /\ hooks' = [hooks EXCEPT ![id] = [h EXCEPT !.pc = "done", !.mail = outcome]]
        /\ UNCHANGED accounts
        /\ WebhookFrame

\* eva signed up and has no access yet; leo is unknown
InitWebhook ==
    /\ users = [u \in Usernames |-> SignupRow]
    /\ daily_intake = {}
    /\ chat_messages = [u \in Usernames |-> 0]
    /\ today = 0
    /\ req = EmptyBag
    /\ started = 0
    /\ ledger_hist = [k \in Usernames \X (0 .. MaxDay) |-> NoHistory]
    /\ last = None
    /\ prior = NoPrior
    /\ order_args = << >>
    /\ order_runs = << >>
    /\ order_phase = 0
    /\ accounts = [e \in Emails |->
                      IF e = "eva@mail.com"
                      THEN Some([has_access |-> FALSE, password_hash |-> HashPassword("own")])
                      ELSE None]
    /\ hooks = << >>
    /\ outbox = {}
    /\ sent = << >>
    /\ weight_logs = {}
    /\ meals = {}
    /\ initial_weight = [u \in Usernames |-> None]

Responds == \E id \in DOMAIN hooks : KiwifyRespond(id) \/ DisruptyRespond(id)

NextWebhook ==
    \/ \E payload \in KiwifyPayloads : KiwifyWebhook(payload)
    \/ \E id \in DOMAIN hooks : KiwifyWrite(id)
    \/ \E email \in Emails : Signup(email)
    \/ \E id \in DOMAIN hooks, configured \in BOOLEAN, smtp \in {"ok", "fails"} :
           KiwifySend(id, configured, smtp)
    \/ \E signature_ok \in BOOLEAN, event \in DisruptyEvents, grant_ok \in BOOLEAN :
           DisruptyWebhook(signature_ok, event, grant_ok)
    \/ \E id \in DOMAIN hooks, resend \in {"ok", "fails"} : DisruptyTask(id, resend)
    \/ Responds

SpecWebhook == InitWebhook /\ [][NextWebhook]_vars

\* the server sends the response once the handler has returned; nothing
\* promises that an SMTP or HTTP conversation with the mail service ends
SpecWebhookFair == SpecWebhook /\ WF_vars(Responds)

-----------------------------------------------------------------------------
(* Notification claims, checked under SpecWebhook and SpecWebhookFair *)

\* what the handler answers for what it provisioned
Provisioned(h) ==
    IF h.kind = "kiwify"
    THEN Answer(200, [ok |-> TRUE, updated |-> h.updated, new_user |-> h.temp_password # None])
    ELSE Answer(200, [status |-> "ok"])

\* C17: the outcome of the e-mail send changes neither the response of the
\* webhook nor the provisioned account: when the send ends, well or with an
\* exception, the accounts stay as they are and the handler goes on to the
\* response it would give anyway.
C17_SendOutcomeChangesNothing ==
    [][ \A id \in DOMAIN hooks :
            /\ (hooks[id].pc = "send" /\ hooks'[id].pc # "send")
                   => /\ accounts' = accounts
                      /\ hooks'[id].pc = "respond"
                      /\ hooks'[id].response = None
            /\ (hooks[id].pc = "task" /\ hooks'[id].pc # "task")
                   => /\ accounts' = accounts
                      /\ hooks'[id].response = hooks[id].response
            /\ (hooks[id].pc = "respond" /\ hooks'[id].pc # "respond")
                   => hooks'[id].response = Provisioned(hooks[id]) ]_vars

\* both handlers have answered 200 although their sends failed
C17_FailedSendsAnswered ==
    \E i, j \in DOMAIN hooks :
        /\ hooks[i].kind = "kiwify" /\ hooks[i].mail = "printed"
        /\ hooks[i].response = Provisioned(hooks[i])
        /\ hooks[j].kind = "disrupty" /\ hooks[j].mail = "printed" /\ hooks[j].pc = "done"
        /\ hooks[j].response = Provisioned(hooks[j])
        /\ accounts[hooks[i].email[1]] # None /\ accounts[hooks[i].email[1]][1].has_access
        /\ accounts[hooks[j].email[1]] # None /\ accounts[hooks[j].email[1]][1].has_access

\* C18: in every webhook handler the response does not wait for the send: a
\* request that got as far as its notification is answered even when the
\* send never ends.
C18_ResponseDoesNotWaitForSend ==
    \A id \in 1 .. MaxHooks :
        (id \in DOMAIN hooks /\ hooks[id].pc \in {"send", "respond", "task"})
            ~> (id \in DOMAIN hooks /\ hooks[id].response # None)

-----------------------------------------------------------------------------
(* The two calculators over a grid of complete profiles: SpecCalc *)

CalcAges == {14, 30, 100}

CalcHeights == {120, 165, 180, 200, 230}

CalcWeights == {25, 40, 60, 92, 120, 400}

\* the rows both calculators accept: sex present, age, height and weight
\* above 0, an allowed activity level and a goal
CalcRows ==
    { [ sex |-> Some(sex), age |-> Some(age), height_cm |-> Some(height_cm),
        current_weight |-> Some(weight), activity_level |-> Some(activity),
        goal_type |-> Some(goal), objetivo |-> None, confirm_low_calorie |-> confirm ] :
      sex \in {"M", "F"}, age \in CalcAges, height_cm \in CalcHeights,
      weight \in CalcWeights, activity \in ALLOWED_ACTIVITY,
      goal \in {"lose", "maintain", "gain"}, confirm \in BOOLEAN }

InitCalc ==
    /\ users \in { [u \in Usernames |-> IF u = ProfileUser THEN row ELSE SignupRow] :
                   row \in CalcRows }
    /\ daily_intake = {}
    /\ chat_messages = [u \in Usernames |-> 0]
    /\ today = 0
    /\ req = EmptyBag
    /\ started = 0
    /\ ledger_hist = [k \in Usernames \X (0 .. MaxDay) |-> NoHistory]
    /\ InitOther

NextCalc ==
    \/ UNCHANGED sent /\ ServeTargets(ProfileUser)
    \/ UNCHANGED sent /\ SendStatusAlone(ProfileUser)

SpecCalc == InitCalc /\ [][NextCalc]_vars

\* the calculator outputs the last response carries
Computed ==
    IF last = None THEN {}
    ELSE (IF last[1].targets # None THEN {last[1].targets[1]} ELSE {})
         \cup (IF last[1].ctx # None /\ last[1].ctx[1].targets # None
               THEN {last[1].ctx[1].targets[1]} ELSE {})

\* C19: for every profile the calculators accept, the protein, fat and
\* carbohydrate gram targets are greater than or equal to 0, also when the
\* protein and fat calories exceed the kcal target.
C19_GramsNotNegative ==
    \A out \in Computed :
        out.targets.protein_g >= 0 /\ out.targets.fat_g >= 0 /\ out.targets.carbs_g >= 0

\* targets whose protein and fat calories exceed the kcal target
C19_ProteinAndFatExceedKcal ==
    \E out \in Computed :
        /\ 4 * out.targets.protein_g + 9 * out.targets.fat_g > out.targets.kcal
        /\ out.targets.carbs_g = 0
        /\ out.targets.protein_g > 0 /\ out.targets.fat_g > 0

\* the kcal a calculator rounds for the stored profile, over 16000
UnroundedKcal16000(out) ==
    LET profile == LoadProfile(users[ProfileUser])
    IN  IF out.blocked THEN MinKcal(profile.sex[1]) * 16000 ELSE AdjustedKcal16000(profile)

UnroundedTdee16000 ==
    LET profile == LoadProfile(users[ProfileUser])
    IN  Tdee16000(profile.sex[1], profile.age, profile.height_cm, profile.current_weight,
                  profile.activity_level)

\* |rounded - unrounded| <= 2.5, the unrounded value given over 16000
WithinHalfStep(rounded, unrounded16000) ==
    /\ 2 * (rounded * 16000 - unrounded16000) <= 5 * 16000
    /\ 2 * (unrounded16000 - rounded * 16000) <= 5 * 16000

\* C20: the kcal target and the TDEE are exact multiples of 5, each a multiple
\* of 5 nearest to its unrounded value (at most 2.5 away).
C20_MultiplesOfFiveNearest ==
    \A out \in Computed :
        /\ out.targets.kcal % 5 = 0
        /\ out.tdee % 5 = 0
        /\ WithinHalfStep(out.targets.kcal, UnroundedKcal16000(out))
        /\ WithinHalfStep(out.tdee, UnroundedTdee16000)

\* both values were rounded, the TDEE upwards and the kcal downwards
C20_RoundedBothWays ==
    \E out \in Computed :
        /\ out.tdee * 16000 > UnroundedTdee16000
        /\ out.targets.kcal * 16000 < UnroundedKcal16000(out)

\* Example 1 of the calculator: M, 30 years, 180 cm, 92 kg, activity 1.55, gain
Example1Row ==
    [ sex |-> Some("M"), age |-> Some(30), height_cm |-> Some(180),
      current_weight |-> Some(92), activity_level |-> Some(62),
      goal_type |-> Some("gain"), objetivo |-> None, confirm_low_calorie |-> FALSE ]

Example1Output(carbs_g) ==
    [ bmr |-> 1900, tdee |-> 2945,
      targets |-> [kcal |-> 3240, protein_g |-> 166, fat_g |-> 74, carbs_g |-> carbs_g],
      blocked |-> FALSE ]

Figures(out) ==
    [bmr |-> out.bmr, tdee |-> out.tdee, targets |-> out.targets, blocked |-> out.blocked]

\* C21 as stated: for the profile M / 30 / 180 cm / 92 kg / 1.55 / gain, not
\* confirmed, the calculator returns BMR 1900, TDEE 2945, kcal 3240, protein
\* 166 g, fat 74 g, carbs 480 g and blocked = false.
C21_Example1Carbs480 ==
    users[ProfileUser] = Example1Row =>
        \A out \in Computed : Figures(out) = Example1Output(480)

\* C21: for the profile M / 30 / 180 cm / 92 kg / 1.55 / gain, not confirmed,
\* both calculators return BMR 1900, TDEE 2945, kcal 3240, protein 166 g,
\* fat 74 g, carbs 479 g and blocked = false.
C21_Example1Carbs479 ==
    users[ProfileUser] = Example1Row =>
        \A out \in Computed : Figures(out) = Example1Output(479)

\* the example profile has been served by GET /nutrition/targets
C21_Example1Served ==
    /\ users[ProfileUser] = Example1Row
    /\ last # None /\ last[1].op = "GET /nutrition/targets" /\ last[1].status = 200
    /\ Computed # {}

\* C22: the protein weight is the current weight when BMI < 30; when
\* BMI >= 30, exactly 30 included, it is ibw + 0.25 (W - ibw) with
\* ibw = 25 x height_m^2 and strictly smaller than the current weight.  The
\* weights are taken times 1600: BMI >= 30 is 1000 W >= 3 H^2, ibw is 4 H^2.
C22_ProteinWeightGap ==
    LET row == users[ProfileUser]
        W   == row.current_weight[1]
        H   == row.height_cm[1]
        pw  == AdjustedWeightIfObese1600(W, H)
    IN  Computed # {} =>
            /\ 1000 * W < 3 * H * H => pw = 1600 * W
            /\ 1000 * W >= 3 * H * H =>
                   /\ 4 * pw = 4 * (4 * H * H) + (1600 * W - 4 * H * H)
                   /\ pw < 1600 * W
            /\ \A out \in Computed : out.targets.protein_g = RoundHalfEven(18 * pw, 16000)

\* targets served for 200 cm and 120 kg, a BMI of exactly 30: protein for 105 kg
C22_ExactlyThirtyServed ==
    /\ users[ProfileUser].height_cm = Some(200)
    /\ users[ProfileUser].current_weight = Some(120)
    /\ \E out \in Computed : out.targets.protein_g = 189

-----------------------------------------------------------------------------
(* The profile requests with a record of what was sent: SpecFrame *)

MaxSent == 2       \* profile requests served in one behaviour

\* the words of the chat messages sent: greetings, questions and directives
ChatTexts ==
    { <<"Oi">>,
      <<"quero", "liberar_deficit">>,
      <<"/confirmar_kcal_baixa">>,
      <<"/Revogar_Kcal_Baixa">>,
      <<"/revogar_kcal_baixa", "sem", "liberar_deficit">>,
      <<"/bloquear_deficit">> }

\* low_cmd = txt.lower()
LowCmd(words) == [i \in DOMAIN words |-> Lower(words[i])]

\* low_cmd.startswith(prefix); of the words used, one begins with a directive
\* only by being that directive
StartsWith(low_cmd, prefix) == low_cmd # << >> /\ low_cmd[1] = prefix

\* "liberar_deficit" in low_cmd
HasLiberarDeficit(low_cmd) ==
    \E i \in DOMAIN low_cmd : low_cmd[i] \in {"liberar_deficit", "/liberar_deficit"}

\* the branch of send_to_ai a message takes, tested in the order of the code
Branch(words) ==
    LET low_cmd == LowCmd(words)
    IN  IF StartsWith(low_cmd, "/perfil") THEN "/perfil"
        ELSE IF \/ StartsWith(low_cmd, "/confirmar_kcal_baixa")
                \/ StartsWith(low_cmd, "/liberar_kcal_baixa")
                \/ StartsWith(low_cmd, "/confirmar_deficit")
                \/ HasLiberarDeficit(low_cmd)
        THEN "/confirmar_kcal_baixa"
        ELSE IF \/ StartsWith(low_cmd, "/revogar_kcal_baixa")
                \/ StartsWith(low_cmd, "/revogar_deficit")
                \/ StartsWith(low_cmd, "/bloquear_deficit")
        THEN "/revogar_kcal_baixa"
        ELSE IF StartsWith(low_cmd, "/limpar_dia") THEN "/limpar_dia"
        ELSE IF StartsWith(low_cmd, "/status") THEN "/status"
        ELSE IF StartsWith(low_cmd, "/consumo") THEN "/consumo"
        ELSE IF StartsWith(low_cmd, "/refeicao") THEN "/refeicao"
        ELSE "conversa"

\* send_to_ai for a message that takes the confirm branch, the revoke branch
\* or the normal conversation; completion_ok is whether the OpenAI call returns
SendChat(username, words, completion_ok) ==
    LET branch == Branch(words)
    IN  /\ CanSave(username)
        /\ branch \in {"/confirmar_kcal_baixa", "/revogar_kcal_baixa", "conversa"}
        /\ IF branch = "/confirmar_kcal_baixa"
           THEN /\ prior' = Met(username, Some(TRUE))
                /\ users' = [users EXCEPT ![username] =
                                PatchProfile(@, With("confirm_low_calorie", TRUE))]
                /\ SaveExchange(username)
                /\ last' = Some(Served(branch, username, 200, "", None, None, None))
           ELSE IF branch = "/revogar_kcal_baixa"
           THEN /\ prior' = Met(username, Some(FALSE))
                /\ users' = [users EXCEPT ![username] =
                                PatchProfile(@, With("confirm_low_calorie", FALSE))]
                /\ SaveExchange(username)
                /\ last' = Some(Served(branch, username, 200, "", None, None, None))
           ELSE IF completion_ok
           THEN /\ prior' = Met(username, None)
                /\ UNCHANGED users
                /\ SaveExchange(username)
                /\ last' = Some(Served(branch, username, 200, "",
                                       Some(BuildLinaSystemPrompt(users[username])),
                                       None, None))
           ELSE /\ prior' = Met(username, None)
                /\ UNCHANGED <<users, chat_messages>>
                /\ last' = Some(Served(branch, username, 502, "Erro da API OpenAI",
                                       None, None, None))
        /\ ProfileFrame

\* the record of a request: what was sent, the row before and after it
Record(path, patch, words) ==
    sent' = Append(sent, [ path     |-> path,
                           patch    |-> patch,
                           words    |-> words,
                           before   |-> users[ProfileUser],
                           after    |-> users'[ProfileUser],
                           accepted |-> last'[1].status = 200 /\ last'[1].detail = "" ])

InitFrame ==
    /\ users \in { [u \in Usernames |-> SignupRow],
                   [u \in Usernames |-> IF u = ProfileUser THEN LowCalorieRow ELSE SignupRow] }
    /\ daily_intake = {}
    /\ chat_messages = [u \in Usernames |-> 0]
    /\ today = 0
    /\ req = EmptyBag
    /\ started = 0
    /\ ledger_hist = [k \in Usernames \X (0 .. MaxDay) |-> NoHistory]
    /\ InitOther

NextFrame ==
    \/ \E parts \in PerfilTexts :
           /\ Len(sent) < MaxSent
           /\ SendPerfil(ProfileUser, parts)
           /\ Record("/perfil", ParsePerfilCmd(parts), << >>)
    \/ \E data \in PutBodies :
           /\ Len(sent) < MaxSent
           /\ PutProfile(ProfileUser, data)
           /\ Record("PUT /nutrition/profile", data, << >>)
    \/ \E updates \in PatchBodies :
           /\ Len(sent) < MaxSent
           /\ UpdateProfile(ProfileUser, updates)
           /\ Record("PATCH /user", updates, << >>)
    \/ \E words \in ChatTexts, completion_ok \in BOOLEAN :
           /\ Len(sent) < MaxSent
           /\ SendChat(ProfileUser, words, completion_ok)
           /\ Record("chat", EmptyPatch, words)

SpecFrame == InitFrame /\ [][NextFrame]_vars

-----------------------------------------------------------------------------
(* Frame claims, checked under SpecFrame *)

Columns == DOMAIN EmptyPatch

Carried(patch) == {c \in Columns : patch[c] # None}

\* the value a patch stores in a column: sex upper-cased by PUT, the flag
\* as a boolean, every other value as it came
Stored(patch, c) ==
    IF c = "confirm_low_calorie" THEN patch[c][1]
    ELSE IF c = "sex" THEN Some(Upper(patch[c][1]))
    ELSE patch[c]

UpdatePaths == {"/perfil", "PUT /nutrition/profile", "PATCH /user"}

Applied(e) == e.path \in UpdatePaths /\ e.accepted

\* C23: an accepted profile update, on each of the three paths, sets exactly
\* the columns its patch carries and leaves the others as they were; two
\* patches in a row that carry disjoint columns both show in the row after
\* the second, whichever came first.
C23_PatchSetsCarriedColumnsOnly ==
    /\ \A i \in DOMAIN sent :
           Applied(sent[i]) =>
               \A c \in Columns :
                   sent[i].after[c] = IF c \in Carried(sent[i].patch)
                                      THEN Stored(sent[i].patch, c)
                                      ELSE sent[i].before[c]
    /\ \A i, j \in DOMAIN sent :
           (j = i + 1 /\ Applied(sent[i]) /\ Applied(sent[j])
              /\ Carried(sent[i].patch) \cap Carried(sent[j].patch) = {})
               => \A c \in Columns :
                      sent[j].after[c] =
                          IF c \in Carried(sent[i].patch) THEN Stored(sent[i].patch, c)
                          ELSE IF c \in Carried(sent[j].patch) THEN Stored(sent[j].patch, c)
                          ELSE sent[i].before[c]

\* a whole-profile /perfil followed by a PATCH /user of the flag alone
C23_DisjointPatchesBothApplied ==
    /\ Len(sent) = 2
    /\ sent[1].path = "/perfil" /\ Applied(sent[1]) /\ Cardinality(Carried(sent[1].patch)) = 6
    /\ sent[2].path = "PATCH /user" /\ Applied(sent[2])
    /\ Carried(sent[2].patch) = {"confirm_low_calorie"}
    /\ users[ProfileUser].confirm_low_calorie
    /\ users[ProfileUser].age = Some(25)

\* the message begins with one of the listed directives
ListedDirectives ==
    { "/perfil", "/confirmar_kcal_baixa", "/liberar_kcal_baixa", "/confirmar_deficit",
      "/revogar_kcal_baixa", "/revogar_deficit", "/bloquear_deficit",
      "/refeicao", "/consumo", "/status", "/limpar_dia" }

RevokeDirectives == {"/revogar_kcal_baixa", "/revogar_deficit", "/bloquear_deficit"}

BeginsWith(words, directives) == Lower(words[1]) \in directives

\* C24: a chat message that does not begin with a listed directive is a
\* normal conversation and changes no profile column and no intake record;
\* a message that begins with a revoke directive leaves confirm_low_calorie
\* false.
C24_OnlyDirectivesWrite ==
    \A i \in DOMAIN sent :
        sent[i].path = "chat" =>
            /\ ~BeginsWith(sent[i].words, ListedDirectives)
                   => /\ sent[i].after = sent[i].before
                      /\ daily_intake = {}
            /\ BeginsWith(sent[i].words, RevokeDirectives)
                   => ~sent[i].after.confirm_low_calorie

-----------------------------------------------------------------------------
(* The two calculators side by side, checked under SpecCalc *)

\* C28: for every complete valid profile the calculator of GET
\* /nutrition/targets and the calculator of the chat context return the same
\* bmr, tdee, kcal, protein, fat, carbohydrate and blocked, and one carries a
\* warning exactly when the other does.
C28_CalculatorsAgree ==
    \A u \in Usernames :
        LET got == GetTargets(users[u])
            ctx == BuildLinaSystemPrompt(users[u])
        IN  (Computed # {} /\ got.status = 200 /\ ctx.targets # None)
                => /\ got.body[1].bmr = ctx.targets[1].bmr
                   /\ got.body[1].tdee = ctx.targets[1].tdee
                   /\ got.body[1].targets = ctx.targets[1].targets
                   /\ got.body[1].blocked = ctx.targets[1].blocked
                   /\ (got.body[1].warnings = << >>) <=> (ctx.targets[1].warnings = << >>)

-----------------------------------------------------------------------------
(* The password a welcome e-mail carries, checked under SpecWebhook *)

\* C30: whenever a welcome e-mail sent by a payment webhook contains a
\* password, that password is the one whose hash the recipient's account
\* stores at that moment, for new and for existing users.
C30_MailedPasswordIsTheStoredOne ==
    [][ \A m \in outbox' \ outbox :
            m.password # None
                => /\ accounts'[m.to] # None
                   /\ accounts'[m.to][1].password_hash = HashPassword(m.password[1]) ]_vars

-----------------------------------------------------------------------------
(* Provisioning under interleaving, checked under SpecWebhook *)

\* the Kiwify requests that were approved, carried an e-mail and returned
\* from _ensure_access_with_password
KiwifyHandled == {id \in DOMAIN hooks : hooks[id].kind = "kiwify"
                                        /\ hooks[id].pc \in {"send", "respond"}}

\* C26: after an approved Kiwify webhook with a buyer e-mail is handled,
\* under any interleaving with other webhooks and with signups for the same
\* e-mail, a user exists for it with has_access = true; a temporary password
\* is generated only when the user was newly created.
C26_HandledWebhookGrantsAccess ==
    \A id \in KiwifyHandled :
        /\ accounts[hooks[id].email[1]] # None
        /\ accounts[hooks[id].email[1]][1].has_access
        /\ hooks[id].temp_password # None => hooks[id].found = None

-----------------------------------------------------------------------------
(* app/endpoints/weight_logs.py and app/endpoints/meal.py: SpecLogs *)

MaxLogs == 2       \* rows of weight_logs at one time
MaxMeals == 1      \* rows of meal_analyses at one time

LogWeights == {78, 80}
LogNow == 2        \* datetime.now(timezone.utc) of a request without recorded_at
SignupWeight == 70 \* the initial_weight given at signup

LogIds == 1 .. (MaxLogs + 1)
MealIds == 1 .. (MaxMeals + 1)

\* uuid4: an id no row of the table has
FreshId(table) == CHOOSE id \in 1 .. (Cardinality(table) + 1) : \A r \in table : r.id # id

\* a query for a weight log by id that does not filter on the owner
FindLogOfAnyone(table, log_id, user_id) == {l \in table : l.id = log_id}

\* select(WeightLog).where(WeightLog.id == log_id, WeightLog.user_id == user.id)
FindLog(table, log_id, user_id) == {l \in table : l.id = log_id /\ l.owner = user_id}

\* the rows select(WeightLog).where(user_id == ...).order_by(recorded_at.asc())
\* may return first; rows of equal recorded_at come in either order
FirstLogs(stored, user_id) ==
    {l \in stored : /\ l.owner = user_id
                    /\ \A m \in stored : m.owner = user_id => l.recorded_at <= m.recorded_at}

\* logs[0].weight: the session returns the object it already holds for a row,
\* with the attribute values set on it in this request
FirstWeights(stored, held, user_id) ==
    {IF \E h \in held : h.id = l.id
     THEN (CHOOSE h \in held : h.id = l.id).weight
     ELSE l.weight : l \in FirstLogs(stored, user_id)}

\* _update_user_weights: the values users.initial_weight may have after it;
\* stored is what its SELECT sees, held the rows changed in the session and
\* not yet flushed.  users.current_weight is written nowhere.
UpdateUserWeights(stored, held, user_id, initial) ==
    IF {l \in stored : l.owner = user_id} = {} THEN {None}
    ELSE IF initial = None THEN {Some(w) : w \in FirstWeights(stored, held, user_id)}
    ELSE {initial}

LogsFrame ==
    UNCHANGED <<daily_intake, chat_messages, today, req, started, ledger_hist, prior,
                order_args, order_runs, order_phase, accounts, hooks, outbox>>

\* the record a request names belongs to someone else
Foreign(table, id, username) == \E r \in table : r.id = id /\ r.owner # username

\* a request, the record it named and its response; foreign is whether the
\* named record was another user's, touched whether any weight log, meal or
\* weight field differs after the request
LogServed(op, username, table, id, status) ==
    /\ last' = Some(Served(op, username, status, "", None, None, None))
    /\ sent' = <<[ path      |-> op,
                   requester |-> username,
                   id        |-> id,
                   foreign   |-> Foreign(table, id, username),
                   touched   |-> \/ weight_logs' # weight_logs
                                 \/ meals' # meals
                                 \/ initial_weight' # initial_weight
                                 \/ users' # users ]>>

\* POST /weight-logs
CreateWeightLog(username, payload) ==
    LET log == [ id          |-> FreshId(weight_logs),
                 owner       |-> username,
                 weight      |-> payload.weight,
                 recorded_at |-> OrElse(payload.recorded_at, LogNow) ]
        stored == weight_logs \cup {log}
    IN  /\ Cardinality(weight_logs) < MaxLogs
        /\ UNCHANGED <<users, meals>>
        /\ weight_logs' = stored
        /\ \E initial \in UpdateUserWeights(stored, {}, username, initial_weight[username]) :
               initial_weight' = [initial_weight EXCEPT ![username] = initial]
        /\ LogServed("POST /weight-logs", username, weight_logs, log.id, 201)
        /\ LogsFrame

\* PATCH /weight-logs/{log_id}; the session does not flush before the SELECT
\* of _update_user_weights (autoflush=False)
UpdateWeightLog(username, log_id, payload) ==
    LET found == FindLog(weight_logs, log_id, username)
    IN  /\ UNCHANGED <<users, meals>>
        /\ IF found = {}
           THEN /\ UNCHANGED <<weight_logs, initial_weight>>
                /\ LogServed("PATCH /weight-logs", username, weight_logs, log_id, 404)
           ELSE LET log     == CHOOSE l \in found : TRUE
                    changed == [log EXCEPT !.weight = OrElse(payload.weight, @),
                                           !.recorded_at = OrElse(payload.recorded_at, @)]
                IN  /\ weight_logs' = (weight_logs \ {log}) \cup {changed}
                    /\ \E initial \in UpdateUserWeights(weight_logs, {changed}, username,
                                                       initial_weight[username]) :
                           initial_weight' = [initial_weight EXCEPT ![username] = initial]
                    /\ LogServed("PATCH /weight-logs", username, weight_logs, log_id, 200)
        /\ LogsFrame

\* DELETE /weight-logs/{log_id}
DeleteWeightLog(username, log_id) ==
    LET found == FindLog(weight_logs, log_id, username)
    IN  /\ UNCHANGED <<users, meals>>
        /\ IF found = {}
           THEN /\ UNCHANGED <<weight_logs, initial_weight>>
                /\ LogServed("DELETE /weight-logs", username, weight_logs, log_id, 404)
           ELSE LET stored == {l \in weight_logs : l.id # log_id}
                IN  /\ weight_logs' = stored
                    /\ \E initial \in UpdateUserWeights(stored, {}, username,
                                                       initial_weight[username]) :
                           initial_weight' = [initial_weight EXCEPT ![username] = initial]
                    /\ LogServed("DELETE /weight-logs", username, weight_logs, log_id, 204)
        /\ LogsFrame

\* POST /meals
CreateMeal(username) ==
    /\ Cardinality(meals) < MaxMeals
    /\ meals' = meals \cup {[id |-> FreshId(meals), owner |-> username]}
    /\ UNCHANGED <<users, weight_logs, initial_weight>>
    /\ LogServed("POST /meals", username, meals, FreshId(meals), 201)
    /\ LogsFrame

\* DELETE /meals/{meal_id}: delete(...).where(id == meal_id, user_id == u.id),
\* 404 when rowcount is 0
DeleteMeal(username, meal_id) ==
    LET matched == {m \in meals : m.id = meal_id /\ m.owner = username}
    IN  /\ meals' = meals \ matched
        /\ UNCHANGED <<users, weight_logs, initial_weight>>
        /\ LogServed("DELETE /meals", username, meals, meal_id,
                     IF matched = {} THEN 404 ELSE 204)
        /\ LogsFrame

\* the bodies of POST /weight-logs: the first user sends both weights, dated
\* or not; the second one body
LogPayloads(username) ==
    IF username = ProfileUser
    THEN [weight : LogWeights, recorded_at : {None, Some(1)}]
    ELSE {[weight |-> 80, recorded_at |-> None]}

\* the bodies of PATCH /weight-logs/{log_id}
LogUpdates(username) ==
    IF username = ProfileUser
    THEN { [weight |-> Some(78), recorded_at |-> None],
           [weight |-> None, recorded_at |-> Some(2)],
           [weight |-> Some(80), recorded_at |-> Some(1)] }
    ELSE {[weight |-> Some(78), recorded_at |-> None]}

InitLogs ==
    /\ users = [u \in Usernames |-> SignupRow]
    /\ daily_intake = {}
    /\ chat_messages = [u \in Usernames |-> 0]
    /\ today = 0
    /\ req = EmptyBag
    /\ started = 0
    /\ ledger_hist = [k \in Usernames \X (0 .. MaxDay) |-> NoHistory]
    /\ last = None
    /\ prior = NoPrior
    /\ order_args = << >>
    /\ order_runs = << >>
    /\ order_phase = 0
    /\ accounts = NoAccounts
    /\ hooks = << >>
    /\ outbox = {}
    /\ sent = << >>
    /\ weight_logs = {}
    /\ meals = {}
    /\ initial_weight \in {[u \in Usernames |-> None],
                           [u \in Usernames |-> IF u = ProfileUser THEN Some(SignupWeight)
                                                ELSE None]}

NextLogs ==
    \/ \E u \in Usernames : \E payload \in LogPayloads(u) : CreateWeightLog(u, payload)
    \/ \E u \in Usernames, id \in LogIds : \E payload \in LogUpdates(u) :
           UpdateWeightLog(u, id, payload)
    \/ \E u \in Usernames, id \in LogIds : DeleteWeightLog(u, id)
    \/ \E u \in Usernames : CreateMeal(u)
    \/ \E u \in Usernames, id \in MealIds : DeleteMeal(u, id)

SpecLogs == InitLogs /\ [][NextLogs]_vars

-----------------------------------------------------------------------------
(* Weight-log claims, checked under SpecLogs *)

LogsOf(u) == {l \in weight_logs : l.owner = u}

Earliest(u) == {l \in LogsOf(u) : \A m \in LogsOf(u) : l.recorded_at <= m.recorded_at}

Latest(u) == {l \in LogsOf(u) : \A m \in LogsOf(u) : l.recorded_at >= m.recorded_at}

WeightLogOps == {"POST /weight-logs", "PATCH /weight-logs", "DELETE /weight-logs"}

\* C25: after every successful create, update or delete of a weight log the
\* user's initial_weight is the weight of the earliest remaining log and
\* current_weight the weight of the latest; both are cleared when no log
\* remains.
C25_WeightsFollowTheLogs ==
    (last # None /\ last[1].op \in WeightLogOps /\ last[1].status \in {200, 201, 204})
        => LET u == last[1].username
           IN  IF LogsOf(u) = {}
               THEN initial_weight[u] = None /\ users[u].current_weight = None
               ELSE /\ \E l \in Earliest(u) : initial_weight[u] = Some(l.weight)
                    /\ \E l \in Latest(u) : users[u].current_weight = Some(l.weight)

\* C27: a weight log or a meal is updated or deleted only for its owner: a
\* request that names a record of another user is answered 404 and leaves
\* every weight log, every meal and every user's weight fields as they were.
C27_ForeignRecordIs404 ==
    (sent # << >> /\ sent[1].foreign)
        => /\ last[1].status = 404
           /\ ~sent[1].touched

\* one user has named another user's weight log in a PATCH or DELETE, got
\* 404, and the log is still there
C27_ForeignLogRefused ==
    /\ sent # << >>
    /\ sent[1].path \in {"PATCH /weight-logs", "DELETE /weight-logs"}
    /\ sent[1].foreign
    /\ last[1].status = 404
    /\ \E l \in weight_logs : l.id = sent[1].id /\ l.owner # sent[1].requester

-----------------------------------------------------------------------------
(* Errors and the ledger: the ledger requests with requests that fail *)

NextFault ==
    \/ NextLedger
    \/ \E q \in BagToSet(req) : FailStep(q)

SpecFault == InitLedger /\ [][NextFault]_vars

LedgerDirectives == {"/consumo", "/refeicao", "/limpar_dia"}

\* C29: a /consumo, /refeicao or /limpar_dia request that ends in an error
\* response leaves the intake ledger unchanged: none of its ledger
\* statements is committed.
C29_FailedRequestLeavesLedger ==
    (last # None /\ last[1].status = 502 /\ last[1].op \in LedgerDirectives)
        => ~sent[1].committed

=============================================================================
